---- MODULE Spec2Model ----
(***************************************************************************)
(* Mantle network explorer: the dependency graph that                      *)
(* build_relationship_graph extracts from the data rows, the flag filter   *)
(* of generate_web_interface and the bounded breadth-first neighbourhood   *)
(* query get_related_items (MantleNetworkExplorer.py).                     *)
(*                                                                         *)
(* Text is a sequence of one-character strings, so that strip, lower,      *)
(* split and substring tests are computed and not assumed.  A cell of the  *)
(* sheet is either NaN (an empty CSV field) or text.  A row is a function  *)
(* from the column positions that hold text to their cells; every other    *)
(* position below the sheet width is NaN.                                  *)
(***************************************************************************)
EXTENDS Integers, Sequences, FiniteSets, TLC

VARIABLES
    pc,                      \* where generate_web_interface is
    ncols,                   \* width of the sheet: len(row) of every row
    cols,                    \* the four column indices left by schema detection
    df,                      \* the data rows scanned so far, in sheet order
    relationships,           \* item_id -> set of dependent item_ids
    reverse_relationships,   \* item_id -> set of items it depends on
    all_items,               \* item_id -> item_info
    filtered,                \* what the flag filter found, once it has run
    query,                   \* the last get_related_items call and what it returned
    sheet,                   \* the rows of the CSV file after DATA_START_ROW
    headers,                 \* the header row load_and_prepare_data returned, if any
    address,                 \* the column letters given to get_column_index
    address_index,           \* what get_column_index returned for them
    traversal                \* the loop of a traversal in progress: its queue and sets

vars ==
    <<pc, ncols, cols, df, relationships, reverse_relationships, all_items, filtered, query,
      sheet, headers, address, address_index, traversal>>

---------------------------------------------------------------------------
(* Text                                                                    *)

Ascii ==
    << " ", "!", "DQUOTE", "#", "$", "%", "&", "'", "(", ")", "*", "+", ",", "-", ".", "/",
       "0", "1", "2", "3", "4", "5", "6", "7", "8", "9", ":", ";", "<", "=", ">", "?",
       "@", "A", "B", "C", "D", "E", "F", "G", "H", "I", "J", "K", "L", "M", "N", "O",
       "P", "Q", "R", "S", "T", "U", "V", "W", "X", "Y", "Z", "[", "BSLASH", "]", "^", "_",
       "GRAVE", "a", "b", "c", "d", "e", "f", "g", "h", "i", "j", "k", "l", "m", "n", "o",
       "p", "q", "r", "s", "t", "u", "v", "w", "x", "y", "z", "{", "|", "}", "~" >>

Chars == {Ascii[i] : i \in DOMAIN Ascii}

\* ord(c) for the printable ASCII characters: Ascii[1] is the space, 32.
\* The double quote, the backslash and the grave accent are spelled out.
OrdTable == [c \in Chars |-> 31 + (CHOOSE i \in DOMAIN Ascii : Ascii[i] = c)]

Ord(c) == OrdTable[c]

Chr(n) == Ascii[n - 31]

UpperLetters == {Ascii[i] : i \in 34..59}

LowerLetters == {Ascii[i] : i \in 66..91}

\* str.upper() and str.lower() on one character: a letter of the other case
\* moves by 32, every other character stays.
UpperChar(c) == IF c \in LowerLetters THEN Chr(Ord(c) - 32) ELSE c

LowerChar(c) == IF c \in UpperLetters THEN Chr(Ord(c) + 32) ELSE c

Lower(s) == [i \in DOMAIN s |-> LowerChar(s[i])]

IsSpace(c) == c = " "

RECURSIVE LStrip(_)
LStrip(s) == IF s # <<>> /\ IsSpace(Head(s)) THEN LStrip(Tail(s)) ELSE s

RECURSIVE RStrip(_)
RStrip(s) ==
    IF s # <<>> /\ IsSpace(s[Len(s)]) THEN RStrip(SubSeq(s, 1, Len(s) - 1)) ELSE s

\* str.strip()
Strip(s) == RStrip(LStrip(s))

\* sub in s
Contains(sub, s) ==
    \E i \in 1..(Len(s) - Len(sub) + 1) : SubSeq(s, i, i + Len(sub) - 1) = sub

HasColon(s) == \E i \in DOMAIN s : s[i] = ":"

\* s.split(':')[0]: the text before the first colon (all of s without one).
BeforeColon(s) ==
    IF HasColon(s)
    THEN SubSeq(s, 1, (CHOOSE i \in DOMAIN s : s[i] = ":" /\ \A j \in 1..(i - 1) : s[j] # ":") - 1)
    ELSE s

\* sep.join(parts)
RECURSIVE Join(_, _)
Join(sep, parts) ==
    IF parts = <<>> THEN <<>>
    ELSE IF Len(parts) = 1 THEN parts[1]
    ELSE parts[1] \o sep \o Join(sep, Tail(parts))

\* list(dict.fromkeys(parts)): duplicates removed, first occurrence kept.
RECURSIVE Dedup(_, _)
Dedup(parts, seen) ==
    IF parts = <<>> THEN <<>>
    ELSE IF Head(parts) \in seen THEN Dedup(Tail(parts), seen)
    ELSE <<Head(parts)>> \o Dedup(Tail(parts), seen \cup {Head(parts)})

---------------------------------------------------------------------------
(* Cells and rows                                                          *)

NaN == [na |-> TRUE, s |-> <<>>]

Txt(s) == [na |-> FALSE, s |-> s]

\* pd.notna(value)
notna(cell) == ~cell.na

\* str(value): a missing cell prints as 'nan'.
PyStr(cell) == IF cell.na THEN <<"n", "a", "n">> ELSE cell.s

\* row.iloc[c], for c < len(row)
iloc(row, c) == IF c \in DOMAIN row THEN row[c] ELSE NaN

\* COLUMN_MAP: the positions behind row['ItemID'], row['ItemName'], row['ItemType']
ItemID == 0

ItemName == 1

ItemType == 2

PARAMS1_COLS == << <<"D", "F">>, <<"H", "V">> >>

PARAMS2_COLS == << <<"H", "W">>, <<"M", "N">> >>

\* for char in col_str: index = index * 26 + (ord(char.upper()) - ord('A')) + 1
RECURSIVE ColumnIndexLoop_ZeroDigit(_, _)
ColumnIndexLoop_ZeroDigit(col_str, index) ==
    IF col_str = <<>> THEN index + 1
    ELSE ColumnIndexLoop_ZeroDigit(Tail(col_str),
                                   index * 26 + (Ord(UpperChar(Head(col_str))) - Ord("A")))

RECURSIVE ColumnIndexLoop(_, _)
ColumnIndexLoop(col_str, index) ==
    IF col_str = <<>> THEN index
    ELSE ColumnIndexLoop(Tail(col_str),
                         index * 26 + (Ord(UpperChar(Head(col_str))) - Ord("A")) + 1)

\* return index - 1
get_column_index_OneBased(col_str) == ColumnIndexLoop(col_str, 0)

get_column_index(col_str) == ColumnIndexLoop(col_str, 0) - 1

col_start_1 == get_column_index(PARAMS1_COLS[1])

col_end_1 == get_column_index(PARAMS1_COLS[2])

col_start_2 == get_column_index(PARAMS2_COLS[1])

col_end_2 == get_column_index(PARAMS2_COLS[2])

\* A column index that schema detection left at None.
NoneCol == -1

---------------------------------------------------------------------------
(* build_relationship_graph                                                *)

\* d.get(k, []) on a mapping to sets: no key is created by the lookup.
DictGet(d, k) == IF k \in DOMAIN d THEN d[k] ELSE {}

\* d[k].add(v) on a defaultdict(set): the key is created when missing.
SetAdd(d, k, v) ==
    IF k \in DOMAIN d THEN [d EXCEPT ![k] = @ \cup {v}] ELSE d @@ (k :> {v})

\* One accepted dependency cell: dep_id gains the dependent item_id and
\* item_id gains the dependency dep_id.
AddDependency_OneWay(g, dep_id, item_id) ==
    [g EXCEPT !.relationships = SetAdd(g.relationships, dep_id, item_id)]

AddDependency(g, dep_id, item_id) ==
    [g EXCEPT !.relationships = SetAdd(g.relationships, dep_id, item_id),
              !.reverse_relationships = SetAdd(g.reverse_relationships, item_id, dep_id)]

\* The id a dependency cell names: the text before the colon of 'id:name'.
DepId(dep_value) == IF HasColon(dep_value) THEN BeforeColon(dep_value) ELSE dep_value

\* for col_idx in range(first, last + 1): the columns whose cell is a
\* dependency of the row, i.e. lies below the sheet width and is not empty.
\* (Only a position that holds text can pass notna: the test runs over those.)
DependencyColumns(row, width, first, last) ==
    {c \in DOMAIN row :
        /\ c \in first..last
        /\ c < width /\ notna(iloc(row, c)) /\ Strip(PyStr(iloc(row, c))) # <<>>}

\* The loop body, once per such column in ascending order.
RECURSIVE AddDependencies(_, _, _, _)
AddDependencies(row, columns, item_id, g) ==
    IF columns = {} THEN g
    ELSE LET c == CHOOSE x \in columns : \A y \in columns : x <= y
         IN  AddDependencies(row, columns \ {c}, item_id,
                             AddDependency(g, DepId(Strip(PyStr(iloc(row, c)))), item_id))

ScanDependencies(row, width, item_id, first, last, g) ==
    AddDependencies(row, DependencyColumns(row, width, first, last), item_id, g)

color_map ==
    (<<"C", "o", "m", "p", "o", "n", "e", "n", "t">> :> "#FF6B6B") @@
    (<<"S", "e", "r", "v", "i", "c", "e">> :> "#4ECDC4") @@
    (<<"D", "a", "t", "a", "b", "a", "s", "e">> :> "#45B7D1") @@
    (<<"A", "P", "I">> :> "#96CEB4") @@
    (<<"I", "n", "t", "e", "r", "f", "a", "c", "e">> :> "#FFEAA7") @@
    (<<"P", "r", "o", "c", "e", "s", "s">> :> "#DDA0DD") @@
    (<<"S", "y", "s", "t", "e", "m">> :> "#98D8C8")

get_node_color(item_type) ==
    IF item_type.na THEN "#97C2FC"
    ELSE IF Strip(PyStr(item_type)) \in DOMAIN color_map
         THEN color_map[Strip(PyStr(item_type))]
         ELSE "#97C2FC"

\* A detected column holds a value in this row.
HasValue(row, width, col) == col # NoneCol /\ col < width /\ notna(iloc(row, col))

\* The canonical item_id of a row: the detected id_item column, else column 0.
CanonicalId(row, width, schema) ==
    IF HasValue(row, width, schema.id_item)
    THEN Strip(PyStr(iloc(row, schema.id_item)))
    ELSE Strip(PyStr(iloc(row, ItemID)))

\* formatted_name_parts: id_item - id_event - display_group - item_name
NameParts(row, width, schema, item_id) ==
    (IF HasValue(row, width, schema.id_item)
     THEN <<Strip(PyStr(iloc(row, schema.id_item)))>> ELSE <<item_id>>)
    \o (IF HasValue(row, width, schema.id_event)
        THEN <<Strip(PyStr(iloc(row, schema.id_event)))>> ELSE <<>>)
    \o (IF HasValue(row, width, schema.display_group)
        THEN <<Strip(PyStr(iloc(row, schema.display_group)))>> ELSE <<>>)
    \o (IF HasValue(row, width, schema.item_name)
        THEN <<Strip(PyStr(iloc(row, schema.item_name)))>>
        ELSE IF notna(iloc(row, ItemName))
             THEN <<Strip(PyStr(iloc(row, ItemName)))>> ELSE <<>>)

UniqueParts(parts) == Dedup(SelectSeq(parts, LAMBDA p : p # <<>>), {})

\* all_items[item_id] = {...}
ItemInfo(row, width, schema, item_id) ==
    LET unique_parts == UniqueParts(NameParts(row, width, schema, item_id))
    IN  [id        |-> item_id,
         name      |-> Join(<<" ", "-", " ">>, unique_parts),
         node_name |-> IF unique_parts # <<>> THEN unique_parts[Len(unique_parts)]
                       ELSE item_id,
         type      |-> IF notna(iloc(row, ItemType)) THEN PyStr(iloc(row, ItemType))
                       ELSE <<"U", "n", "k", "n", "o", "w", "n">>,
         color     |-> get_node_color(iloc(row, ItemType))]

\* dict.setdefault(k, v): the first value stored under a key stays.
DictSet_KeepFirst(d, k, v) == IF k \in DOMAIN d THEN d ELSE d @@ (k :> v)

\* dict[k] = v
DictSet(d, k, v) == IF k \in DOMAIN d THEN [d EXCEPT ![k] = v] ELSE d @@ (k :> v)

\* The body of the loop over df.iterrows() for one row.
BuildRow(row, width, schema, g) ==
    LET item_id == CanonicalId(row, width, schema)
    IN  IF item_id = <<>> THEN g
        ELSE LET g0 == [g EXCEPT !.all_items =
                            DictSet(g.all_items, item_id,
                                    ItemInfo(row, width, schema, item_id))]
                 g1 == ScanDependencies(row, width, item_id, col_start_1, col_end_1, g0)
             IN  ScanDependencies(row, width, item_id, col_start_2, col_end_2, g1)

EmptyGraph == [relationships |-> <<>>, reverse_relationships |-> <<>>, all_items |-> <<>>]

\* for index, row in df.iterrows(): ... return relationships,
\* reverse_relationships, all_items
RECURSIVE BuildRows(_, _, _, _)
BuildRows(rows, width, schema, g) ==
    IF rows = <<>> THEN g
    ELSE BuildRows(Tail(rows), width, schema, BuildRow(Head(rows), width, schema, g))

build_relationship_graph(rows, width, schema) == BuildRows(rows, width, schema, EmptyGraph)

Graph == [relationships         |-> relationships,
          reverse_relationships |-> reverse_relationships,
          all_items             |-> all_items]

---------------------------------------------------------------------------
(* get_related_items                                                       *)

\* The order in which Python iterates a set is not fixed by the program.
\* A call iterates its sets in the order of ord, a sequence that lists
\* every id once.
IterOrder(S, ord) == SelectSeq(ord, LAMBDA x : x \in S)

\* reverse_relationships.get(current_id, []): the value read, and the
\* mapping as the read leaves it.
Lookup_Insert(d, k) ==
    [val |-> DictGet(d, k), dict |-> IF k \in DOMAIN d THEN d ELSE d @@ (k :> {})]

Lookup(d, k) == [val |-> DictGet(d, k), dict |-> d]

WithDepth(item_info, depth) == [depth |-> depth] @@ item_info

\* node_info = all_items[current_id].copy(); node_info['depth'] = depth:
\* the node reported, and the item table as the write leaves it.
NodeInfo_NoCopy(items, current_id, depth) ==
    [node  |-> WithDepth(items[current_id], depth),
     items |-> [items EXCEPT ![current_id] = WithDepth(items[current_id], depth)]]

NodeInfo(items, current_id, depth) ==
    [node |-> WithDepth(items[current_id], depth), items |-> items]

\* if item_id not in all_items: return [], []
KnownRoot_OrKey(item_id, g) ==
    item_id \in DOMAIN g.all_items \/ item_id \in DOMAIN g.relationships

KnownRoot(item_id, g) == item_id \in DOMAIN g.all_items

\* if depth < max_depth
BelowMaxDepth_Inclusive(depth, max_depth) == depth <= max_depth

BelowMaxDepth(depth, max_depth) == depth < max_depth

\* if current_id in all_items: the popped id is reported as a node
ReportsNode_OnlyAtMaxDepth(current_id, depth, max_depth, items) ==
    current_id \in DOMAIN items /\ depth = max_depth

ReportsNode(current_id, depth, max_depth, items) == current_id \in DOMAIN items

\* edges.append((dep_id, current_id))
DependencyEdge(dep_id, current_id) == <<dep_id, current_id>>

\* edges.append((current_id, dependent_id))
DependentEdge_Swapped(current_id, dependent_id) == <<dependent_id, current_id>>

DependentEdge(current_id, dependent_id) == <<current_id, dependent_id>>

\* if dep_id not in visited and dep_id in all_items
Discovers_NoVisitedCheck(id, st) == id \in DOMAIN st.g.all_items

Discovers(id, st) == id \notin st.visited /\ id \in DOMAIN st.g.all_items

\* The loop over the dependencies with the new entry queued at the depth of
\* the current one.
RECURSIVE ExpandDependencies_SameDepth(_, _, _, _)
ExpandDependencies_SameDepth(todo, current_id, depth, st) ==
    IF todo = <<>> THEN st
    ELSE LET dep_id == Head(todo)
         IN  IF Discovers(dep_id, st)
             THEN ExpandDependencies_SameDepth(Tail(todo), current_id, depth,
                     [st EXCEPT !.visited = @ \cup {dep_id},
                                !.queue = Append(@, <<dep_id, depth>>),
                                !.edges = Append(@, DependencyEdge(dep_id, current_id))])
             ELSE ExpandDependencies_SameDepth(Tail(todo), current_id, depth, st)

\* for dep_id in reverse_relationships.get(current_id, []): ...
RECURSIVE ExpandDependencies(_, _, _, _)
ExpandDependencies(todo, current_id, depth, st) ==
    IF todo = <<>> THEN st
    ELSE LET dep_id == Head(todo)
         IN  IF Discovers(dep_id, st)
             THEN ExpandDependencies(Tail(todo), current_id, depth,
                     [st EXCEPT !.visited = @ \cup {dep_id},
                                !.queue = Append(@, <<dep_id, depth + 1>>),
                                !.edges = Append(@, DependencyEdge(dep_id, current_id))])
             ELSE ExpandDependencies(Tail(todo), current_id, depth, st)

\* for dependent_id in relationships.get(current_id, []): ...
RECURSIVE ExpandDependents(_, _, _, _)
ExpandDependents(todo, current_id, depth, st) ==
    IF todo = <<>> THEN st
    ELSE LET dependent_id == Head(todo)
         IN  IF Discovers(dependent_id, st)
             THEN ExpandDependents(Tail(todo), current_id, depth,
                     [st EXCEPT !.visited = @ \cup {dependent_id},
                                !.queue = Append(@, <<dependent_id, depth + 1>>),
                                !.edges = Append(@, DependentEdge(current_id, dependent_id))])
             ELSE ExpandDependents(Tail(todo), current_id, depth, st)

\* One turn of "while queue": pop, report the node, expand both directions.
QueryStep(st, max_depth, ord) ==
    LET current_id == Head(st.queue)[1]
        depth == Head(st.queue)[2]
        popped == [st EXCEPT !.queue = Tail(@)]
        info == NodeInfo(popped.g.all_items, current_id, depth)
        noted == IF ReportsNode(current_id, depth, max_depth, popped.g.all_items)
                 THEN [popped EXCEPT !.nodes = Append(@, info.node),
                                     !.g.all_items = info.items]
                 ELSE popped
        deps == Lookup(noted.g.reverse_relationships, current_id)
        st1 == ExpandDependencies(IterOrder(deps.val, ord), current_id, depth,
                                  [noted EXCEPT !.g.reverse_relationships = deps.dict])
        dependents == Lookup(st1.g.relationships, current_id)
    IN  IF BelowMaxDepth(depth, max_depth)
        THEN ExpandDependents(IterOrder(dependents.val, ord), current_id, depth,
                              [st1 EXCEPT !.g.relationships = dependents.dict])
        ELSE noted

RECURSIVE QueryLoop(_, _, _)
QueryLoop(st, max_depth, ord) ==
    IF st.queue = <<>> THEN st ELSE QueryLoop(QueryStep(st, max_depth, ord), max_depth, ord)

\* get_related_items(item_id, relationships, reverse_relationships, all_items,
\* max_depth): the nodes and edges returned, and the three arguments as the
\* call leaves them (they are passed by reference).
get_related_items(item_id, g, max_depth, ord) ==
    IF ~KnownRoot(item_id, g) THEN [nodes |-> <<>>, edges |-> <<>>, g |-> g]
    ELSE LET st == QueryLoop([visited |-> {item_id}, queue |-> << <<item_id, 0>> >>,
                              nodes |-> <<>>, edges |-> <<>>, g |-> g],
                             max_depth, ord)
         IN  [nodes |-> st.nodes, edges |-> st.edges, g |-> st.g]

---------------------------------------------------------------------------
(* filter_by_actuarial_payment_relationships                               *)

actuarial_liability ==
    <<"a", "c", "t", "u", "a", "r", "i", "a", "l", "_",
      "l", "i", "a", "b", "i", "l", "i", "t", "y">>

payment_risk == <<"p", "a", "y", "m", "e", "n", "t", "_", "r", "i", "s", "k">>

payment_insured ==
    <<"p", "a", "y", "m", "e", "n", "t", "_", "i", "n", "s", "u", "r", "e", "d">>

\* any(df[col].astype(str).str.lower().str.contains(name))
ColumnContains(rows, col, name) ==
    \E i \in DOMAIN rows : Contains(name, Lower(PyStr(iloc(rows[i], col))))

\* df.columns, less the columns that are NaN in every row: such a column
\* reads 'nan' throughout, which contains no flag name, so it takes no
\* branch of the scan below.
TextColumns(rows, width) ==
    {col \in UNION {DOMAIN rows[i] : i \in DOMAIN rows} : col < width}

\* df.rename(columns=COLUMN_MAP): the labels of positions 0, 1 and 2 are the
\* strings 'ItemID', 'ItemName', 'ItemType'; every other label is its position.
HasTextLabel(col) == col \in {ItemID, ItemName, ItemType}

\* col + 1 if col + 1 in df.columns else None
NextColumn(col, width) == IF col + 1 < width THEN col + 1 ELSE NoneCol

\* The branch of the if/elif chain a column takes: the first flag name that
\* some row's cell of the column contains, or <<>> when there is none.
FlagNameOf(rows, col) ==
    IF ColumnContains(rows, col, actuarial_liability) THEN actuarial_liability
    ELSE IF ColumnContains(rows, col, payment_risk) THEN payment_risk
    ELSE IF ColumnContains(rows, col, payment_insured) THEN payment_insured
    ELSE <<>>

\* The value column a flag name ends with after "for col in df.columns":
\* the last column that takes its branch assigns it.
FlagValueColumn(rows, width, name) ==
    LET hits == {col \in TextColumns(rows, width) : FlagNameOf(rows, col) = name}
    IN  IF hits = {} THEN NoneCol
        ELSE NextColumn(CHOOSE c \in hits : \A d \in hits : d <= c, width)

\* for col in df.columns: ... .  A column that takes a branch evaluates
\* col + 1; on a text label that raises TypeError, which nothing catches.
FindFlagColumns(rows, width) ==
    [raised |-> \E col \in TextColumns(rows, width) :
                    HasTextLabel(col) /\ FlagNameOf(rows, col) # <<>>,
     actuarial_col       |-> FlagValueColumn(rows, width, actuarial_liability),
     payment_risk_col    |-> FlagValueColumn(rows, width, payment_risk),
     payment_insured_col |-> FlagValueColumn(rows, width, payment_insured)]

\* if actuarial_col and actuarial_col < len(row):
\*     if str(row.iloc[actuarial_col]).strip() == '1'
FlagSet(row, width, col) ==
    col # NoneCol /\ col # 0 /\ col < width /\ Strip(PyStr(iloc(row, col))) = <<"1">>

\* The rows' own ids are read from column 0 here.
RowIsFlagged(row, width, found, items) ==
    /\ Strip(PyStr(iloc(row, ItemID))) \in DOMAIN items
    /\ \/ FlagSet(row, width, found.actuarial_col)
       \/ FlagSet(row, width, found.payment_risk_col)
       \/ FlagSet(row, width, found.payment_insured_col)

flagged_items(rows, width, found, items) ==
    {Strip(PyStr(iloc(rows[i], ItemID))) :
        i \in {j \in DOMAIN rows : RowIsFlagged(rows[j], width, found, items)}}

\* find_connected_items(start_items, relationships, reverse_relationships, max_depth=10)
FilterMaxDepth == 10

RECURSIVE ConnectNeighbours(_, _, _, _)
ConnectNeighbours(todo, depth, items, st) ==
    IF todo = <<>> THEN st
    ELSE IF Head(todo) \notin st.connected /\ Head(todo) \in DOMAIN items
    THEN ConnectNeighbours(Tail(todo), depth, items,
            [st EXCEPT !.connected = @ \cup {Head(todo)},
                       !.queue = Append(@, <<Head(todo), depth + 1>>)])
    ELSE ConnectNeighbours(Tail(todo), depth, items, st)

\* One turn of "while queue" in find_connected_items.
ConnectStep(st, g, max_depth, ord) ==
    LET current_item == Head(st.queue)[1]
        depth == Head(st.queue)[2]
        popped == [st EXCEPT !.queue = Tail(@)]
        st1 == ConnectNeighbours(
                   IterOrder(DictGet(g.reverse_relationships, current_item), ord),
                   depth, g.all_items, popped)
    IN  IF depth >= max_depth THEN popped
        ELSE ConnectNeighbours(IterOrder(DictGet(g.relationships, current_item), ord),
                               depth, g.all_items, st1)

RECURSIVE ConnectLoop(_, _, _, _)
ConnectLoop(st, g, max_depth, ord) ==
    IF st.queue = <<>> THEN st.connected
    ELSE ConnectLoop(ConnectStep(st, g, max_depth, ord), g, max_depth, ord)

find_connected_items(start_items, g, max_depth, ord) ==
    ConnectLoop([connected |-> start_items,
                 queue |-> [i \in 1..Len(IterOrder(start_items, ord)) |->
                               <<IterOrder(start_items, ord)[i], 0>>]],
                g, max_depth, ord)

\* What the call at line 474 does: it either returns the three mappings or
\* raises.  With a flagged item it reaches
\*     filtered_all_items = {{k: v for k, v in all_items.items() if ...}}
\* a set display holding a dict, which raises TypeError (unhashable type),
\* so no filtered mapping is ever built; without one it returns its
\* arguments.
filter_by_actuarial_payment_relationships(g, rows, width, ord) ==
    LET found == FindFlagColumns(rows, width)
        flagged == flagged_items(rows, width, found, g.all_items)
    IN  IF found.raised
        THEN [raised |-> TRUE, flagged_items |-> {}, connected_items |-> {}, g |-> g]
        ELSE IF flagged # {}
        THEN [raised |-> TRUE, flagged_items |-> flagged,
              connected_items |-> find_connected_items(flagged, g, FilterMaxDepth, ord),
              g |-> g]
        ELSE [raised |-> FALSE, flagged_items |-> {}, connected_items |-> {}, g |-> g]

---------------------------------------------------------------------------
(* load_and_prepare_data                                                   *)

\* headers is None
NoHeaders == [present |-> FALSE, row |-> <<>>]

HeaderRow(row) == [present |-> TRUE, row |-> row]

benefit_items == <<"B", "E", "N", "E", "F", "I", "T", " ", "I", "T", "E", "M", "S">>

is_quote == <<"i", "s", "_", "q", "u", "o", "t", "e">>

\* isinstance(value, str) and "BENEFIT ITEMS" in value, for some cell
HasAnchor(row) == \E c \in DOMAIN row : notna(row[c]) /\ Contains(benefit_items, row[c].s)

\* benefit_row: the label of the first such row (rows are labelled from 0),
\* -1 without one.
benefit_row(rows) ==
    IF \E i \in DOMAIN rows : HasAnchor(rows[i])
    THEN (CHOOSE i \in DOMAIN rows :
             HasAnchor(rows[i]) /\ \A j \in 1..(i - 1) : ~HasAnchor(rows[j])) - 1
    ELSE -1

\* row.isnull().all()
IsBlank(row) == \A c \in DOMAIN row : row[c].na

\* blank_row: the label of the first blank row from the label first on,
\* -1 without one.  The frame sliced at line 62 keeps the labels of the
\* sheet.
blank_row(rows, first) ==
    IF \E i \in DOMAIN rows : i - 1 >= first /\ IsBlank(rows[i])
    THEN (CHOOSE i \in DOMAIN rows :
             /\ i - 1 >= first /\ IsBlank(rows[i])
             /\ \A j \in 1..(i - 1) : ~(j - 1 >= first /\ IsBlank(rows[j]))) - 1
    ELSE -1

\* df.iloc[start:]: the rows from position start on (positions from 0).
ilocFrom(rows, start) == SubSeq(rows, start + 1, Len(rows))

\* df.iloc[:stop] for stop >= 0: the first stop rows, by position.
ilocUpTo(rows, stop) == SubSeq(rows, 1, IF stop < Len(rows) THEN stop ELSE Len(rows))

\* Lines 50-75: the rows kept when the anchor is at label anchor.
DataRegion(rows, anchor) ==
    LET data_start_index == anchor + 2
        data             == ilocFrom(rows, data_start_index)
        blank            == blank_row(rows, data_start_index)
    IN  IF blank >= 0 THEN ilocUpTo(data, blank) ELSE data

\* The columns the is_quote scan visits: the numbered ones (those named by
\* COLUMN_MAP are skipped) where some row holds 'is_quote' and the next
\* column exists.
QuoteNameColumns(rows, width) ==
    {col \in TextColumns(rows, width) :
        /\ col \notin {ItemID, ItemName, ItemType}
        /\ ColumnContains(rows, col, is_quote)
        /\ col + 1 < width}

\* is_quote_col, NoneCol when the scan finds none.
is_quote_col(rows, width) ==
    IF QuoteNameColumns(rows, width) = {} THEN NoneCol
    ELSE (CHOOSE col \in QuoteNameColumns(rows, width) :
             \A other \in QuoteNameColumns(rows, width) : col <= other) + 1

\* df[df[is_quote_col].astype(str) != '1']
DropQuotes(rows, width) ==
    IF is_quote_col(rows, width) = NoneCol THEN rows
    ELSE SelectSeq(rows, LAMBDA row : PyStr(iloc(row, is_quote_col(rows, width))) # <<"1">>)

load_and_prepare_data_TerminatorAlways(rows, width) ==
    LET anchor == benefit_row(rows)
    IN  IF anchor + 1 >= Len(rows) /\ anchor >= 0
        THEN [failed |-> TRUE, df |-> <<>>, headers |-> NoHeaders]
        ELSE [failed  |-> FALSE,
              df      |-> DropQuotes(DataRegion(rows, anchor), width),
              headers |-> IF anchor >= 0 THEN HeaderRow(rows[anchor + 2]) ELSE NoHeaders]

\* load_and_prepare_data on the rows after DATA_START_ROW.  failed: an
\* exception reached the except clause and the function returned None.
load_and_prepare_data(rows, width) ==
    LET anchor == benefit_row(rows)
    IN  IF anchor >= 0
        THEN IF anchor + 1 >= Len(rows)
             THEN [failed |-> TRUE, df |-> <<>>, headers |-> NoHeaders]
             ELSE [failed  |-> FALSE,
                   df      |-> DropQuotes(DataRegion(rows, anchor), width),
                   headers |-> HeaderRow(rows[anchor + 2])]
        ELSE [failed |-> FALSE, df |-> DropQuotes(rows, width), headers |-> NoHeaders]

---------------------------------------------------------------------------
(* build_relationship_graph: the column detection of lines 143-215         *)

id_item == <<"i", "d", "_", "i", "t", "e", "m">>

id_event == <<"i", "d", "_", "e", "v", "e", "n", "t">>

display_group == <<"d", "i", "s", "p", "l", "a", "y", "_", "g", "r", "o", "u", "p">>

group == <<"g", "r", "o", "u", "p">>

item_name == <<"i", "t", "e", "m", "_", "n", "a", "m", "e">>

\* The columns of a row that hold text, in ascending order.
RECURSIVE Ascending(_)
Ascending(S) ==
    IF S = {} THEN <<>>
    ELSE LET least == CHOOSE x \in S : \A y \in S : x <= y
         IN  <<least>> \o Ascending(S \ {least})

\* header_str = str(header).lower().strip()
header_str(header) == Strip(Lower(PyStr(header)))

\* Lines 155-166: one header of the exact pass.
ExactMatch(schema, col_idx, header) ==
    IF header_str(header) = id_item THEN [schema EXCEPT !.id_item = col_idx]
    ELSE IF header_str(header) = id_event THEN [schema EXCEPT !.id_event = col_idx]
    ELSE IF header_str(header) = display_group THEN [schema EXCEPT !.display_group = col_idx]
    ELSE IF header_str(header) = item_name THEN [schema EXCEPT !.item_name = col_idx]
    ELSE schema

\* The partial pass with "not id_item_col" in place of "id_item_col is None".
PartialMatch_Falsy(schema, col_idx, header) ==
    IF schema.id_item <= 0 /\ Contains(id_item, header_str(header))
    THEN [schema EXCEPT !.id_item = col_idx]
    ELSE IF schema.id_event <= 0 /\ Contains(id_event, header_str(header))
    THEN [schema EXCEPT !.id_event = col_idx]
    ELSE IF /\ schema.display_group <= 0
            /\ (Contains(display_group, header_str(header))
                   \/ Contains(group, header_str(header)))
    THEN [schema EXCEPT !.display_group = col_idx]
    ELSE IF schema.item_name <= 0 /\ Contains(item_name, header_str(header))
    THEN [schema EXCEPT !.item_name = col_idx]
    ELSE schema

\* Lines 175-186: one header of the partial pass.
PartialMatch(schema, col_idx, header) ==
    IF schema.id_item = NoneCol /\ Contains(id_item, header_str(header))
    THEN [schema EXCEPT !.id_item = col_idx]
    ELSE IF schema.id_event = NoneCol /\ Contains(id_event, header_str(header))
    THEN [schema EXCEPT !.id_event = col_idx]
    ELSE IF /\ schema.display_group = NoneCol
            /\ (Contains(display_group, header_str(header))
                   \/ Contains(group, header_str(header)))
    THEN [schema EXCEPT !.display_group = col_idx]
    ELSE IF schema.item_name = NoneCol /\ Contains(item_name, header_str(header))
    THEN [schema EXCEPT !.item_name = col_idx]
    ELSE schema

\* value.isdigit()
IsDigit(value) ==
    value # <<>> /\ \A i \in DOMAIN value : value[i] \in {Ascii[k] : k \in 17..26}

\* len(value.split(':')) == 2
OneColon(value) == Cardinality({i \in DOMAIN value : value[i] = ":"}) = 1

group_words ==
    {<<"c", "a", "l", "c", "u", "l", "a", "t", "i", "o", "n">>, <<"i", "n", "p", "u", "t">>,
     <<"b", "e", "n", "e", "f", "i", "t">>, <<"s", "e", "r", "v", "i", "c", "e">>,
     <<"r", "a", "t", "e">>}

not_group_names ==
    {<<"T", "R", "U", "E">>, <<"F", "A", "L", "S", "E">>, <<"0">>, <<"1">>}

\* Lines 196-209: one cell of the sample row.
PatternMatch(schema, col_idx, cell) ==
    LET value == Strip(PyStr(cell))
    IN  IF schema.id_event = NoneCol /\ OneColon(value)
        THEN [schema EXCEPT !.id_event = col_idx]
        ELSE IF /\ schema.display_group = NoneCol /\ Len(value) > 5
                /\ ~IsDigit(value) /\ value \notin not_group_names
                /\ \E word \in group_words : Contains(word, Lower(value))
        THEN [schema EXCEPT !.display_group = col_idx]
        ELSE schema

\* One cell of the pass named: the exact or the partial pass over the
\* headers, or the pattern pass over the sample row.
MatchCell(pass, schema, col_idx, cell) ==
    IF pass = "exact" THEN ExactMatch(schema, col_idx, cell)
    ELSE IF pass = "partial" THEN PartialMatch(schema, col_idx, cell)
    ELSE PatternMatch(schema, col_idx, cell)

\* A pass over the cells of a row that hold text, by ascending column (a
\* cell that is NaN changes nothing in any of the three passes).
RECURSIVE DetectPass(_, _, _, _)
DetectPass(pass, schema, row, columns) ==
    IF columns = <<>> THEN schema
    ELSE DetectPass(pass, MatchCell(pass, schema, Head(columns), row[Head(columns)]), row,
                    Tail(columns))

\* all([id_item_col, id_event_col, display_group_col, item_name_col]):
\* None and column 0 are both false.
AllFound_NotNone(schema) ==
    /\ schema.id_item # NoneCol /\ schema.id_event # NoneCol
    /\ schema.display_group # NoneCol /\ schema.item_name # NoneCol

AllFound(schema) ==
    /\ schema.id_item > 0 /\ schema.id_event > 0
    /\ schema.display_group > 0 /\ schema.item_name > 0

SampleColumns(rows, width) ==
    Ascending({c \in DOMAIN rows[1] : c < 30 /\ c < width /\ notna(rows[1][c])})

HeaderColumns(hdrs, width) ==
    Ascending({c \in DOMAIN hdrs.row : c < width /\ notna(hdrs.row[c])})

\* Lines 143-146: the four columns before any pass.
UnresolvedColumns ==
    [id_item |-> NoneCol, id_event |-> NoneCol, display_group |-> NoneCol,
     item_name |-> NoneCol]

\* Lines 151-167: the exact pass over the headers.
ExactTier(hdrs, width) ==
    DetectPass("exact", UnresolvedColumns, hdrs.row, HeaderColumns(hdrs, width))

\* Lines 170-186: the partial pass, entered unless all four are found.
PartialTier(schema, hdrs, width) ==
    IF AllFound(schema) THEN schema
    ELSE DetectPass("partial", schema, hdrs.row, HeaderColumns(hdrs, width))

\* Lines 189-209: the pattern pass over the first data row, entered unless
\* all four are found or the frame is empty.
PatternTier(schema, rows, width) ==
    IF ~AllFound(schema) /\ rows # <<>>
    THEN DetectPass("pattern", schema, rows[1], SampleColumns(rows, width))
    ELSE schema

\* The four column indices at line 215.
DetectColumns(hdrs, rows, width) ==
    IF ~hdrs.present THEN UnresolvedColumns
    ELSE PatternTier(PartialTier(ExactTier(hdrs, width), hdrs, width), rows, width)

---------------------------------------------------------------------------
(* MantleNetworkDiagram_backup.py: create_network_data                     *)

\* s.split(':', 1)[1]: the text after the first colon.
AfterColon(s) ==
    SubSeq(s, (CHOOSE i \in DOMAIN s : s[i] = ":" /\ \A j \in 1..(i - 1) : s[j] # ":") + 1,
           Len(s))

\* valid_items = df.dropna(subset=['ItemID'])
valid_items(rows) == SelectSeq(rows, LAMBDA row : notna(iloc(row, ItemID)))

\* valid_item_ids = set(valid_items['ItemID'].astype(str))
valid_item_ids(rows) ==
    {PyStr(iloc(valid_items(rows)[i], ItemID)) : i \in DOMAIN valid_items(rows)}

\* The name columns range(start_col, end_col, 2) visits that hold text in
\* this row and have their value column inside the row.
ParamNameColumns(row_data, width, start_col, end_col) ==
    {i \in DOMAIN row_data :
        /\ start_col <= i /\ i < end_col /\ (i - start_col) % 2 = 0
        /\ i + 1 < width}

item_type_names == {<<"I", "t", "e", "m">>, <<"S", "e", "r", "i", "e", "s">>}

\* The edge parse_dependencies appends for the name column i, if any.
ParamEdges(row_data, ids, i) ==
    LET param_info     == iloc(row_data, i)
        param_name     == Strip(BeforeColon(param_info.s))
        param_type     == Strip(AfterColon(param_info.s))
        target_node_id == PyStr(iloc(row_data, i + 1))
    IN  IF /\ notna(param_info) /\ HasColon(param_info.s)
           /\ param_type \in item_type_names
           /\ target_node_id # <<"n", "a", "n">> /\ target_node_id \in ids
        THEN {[from |-> PyStr(iloc(row_data, ItemID)), to |-> target_node_id,
               name |-> param_name]}
        ELSE {}

\* parse_dependencies(row_data, start_col, end_col): the edges it appends.
parse_dependencies(row_data, width, ids, start_col, end_col) ==
    UNION {ParamEdges(row_data, ids, i) :
              i \in ParamNameColumns(row_data, width, start_col, end_col)}

\* "Series" in str(row['ItemType'])
IsSeries(row) == Contains(<<"S", "e", "r", "i", "e", "s">>, PyStr(iloc(row, ItemType)))

\* create_network_data resolving a reference against the ids of the rows
\* scanned so far only.
create_network_data_SeenSoFar(rows, width) ==
    UNION {parse_dependencies(valid_items(rows)[k], width,
                              valid_item_ids(SubSeq(valid_items(rows), 1, k)),
                              col_start_1, col_end_1)
           \cup (IF IsSeries(valid_items(rows)[k])
                 THEN parse_dependencies(valid_items(rows)[k], width,
                                         valid_item_ids(SubSeq(valid_items(rows), 1, k)),
                                         col_start_2, col_end_2)
                 ELSE {}) : k \in DOMAIN valid_items(rows)}

\* The edges of create_network_data(df), as a set.
create_network_data(rows, width) ==
    UNION {parse_dependencies(valid_items(rows)[k], width, valid_item_ids(rows),
                              col_start_1, col_end_1)
           \cup (IF IsSeries(valid_items(rows)[k])
                 THEN parse_dependencies(valid_items(rows)[k], width, valid_item_ids(rows),
                                         col_start_2, col_end_2)
                 ELSE {}) : k \in DOMAIN valid_items(rows)}

\* The name columns parse_dependencies visits for a row, in the order of
\* the calls at lines 85-87: range 1, then range 2 for a Series row.
RowNameColumns(row, width) ==
    Ascending(ParamNameColumns(row, width, col_start_1, col_end_1))
    \o (IF IsSeries(row) THEN Ascending(ParamNameColumns(row, width, col_start_2, col_end_2))
        ELSE <<>>)

\* Lines 80-82 with a self-reference counted once.
AppendEdge_SelfOnce(net, edge) ==
    IF net.raised THEN net
    ELSE IF edge.from \notin DOMAIN net.degrees \/ edge.to \notin DOMAIN net.degrees
    THEN [net EXCEPT !.raised = TRUE]
    ELSE [net EXCEPT !.edges = Append(@, edge),
                     !.degrees = [id \in DOMAIN @ |->
                                     IF id \in {edge.from, edge.to} THEN @[id] + 1 ELSE @[id]]]

\* Lines 80-82: edges.append(...); degrees[source_node_id] += 1;
\* degrees[target_node_id] += 1.  A key missing from degrees is a KeyError.
AppendEdge(net, edge) ==
    IF net.raised THEN net
    ELSE IF edge.from \notin DOMAIN net.degrees \/ edge.to \notin DOMAIN net.degrees
    THEN [net EXCEPT !.raised = TRUE]
    ELSE [net EXCEPT !.edges = Append(@, edge),
                     !.degrees = [id \in DOMAIN @ |->
                                     @[id] + (IF id = edge.from THEN 1 ELSE 0)
                                           + (IF id = edge.to THEN 1 ELSE 0)]]

\* parse_dependencies over the name columns of one row.
RECURSIVE ParseRow(_, _, _, _)
ParseRow(row_data, ids, columns, net) ==
    IF columns = <<>> THEN net
    ELSE LET found == ParamEdges(row_data, ids, Head(columns))
         IN  ParseRow(row_data, ids, Tail(columns),
                      IF found = {} THEN net
                      ELSE AppendEdge(net, CHOOSE edge \in found : TRUE))

\* The loop of lines 84-87 over the rows of valid_items.
RECURSIVE ParseRows(_, _, _, _)
ParseRows(rows, width, ids, net) ==
    IF rows = <<>> THEN net
    ELSE ParseRows(Tail(rows), width, ids,
                   ParseRow(Head(rows), ids, RowNameColumns(Head(rows), width), net))

\* The edge list and the degrees of create_network_data(df) at line 88.
network_degrees(rows, width) ==
    ParseRows(valid_items(rows), width, valid_item_ids(rows),
              [edges |-> <<>>, degrees |-> [id \in valid_item_ids(rows) |-> 0],
               raised |-> FALSE])

\* Lines 102-103: the radius of the node of an item.
radius(net, item_id) ==
    5 + ((IF item_id \in DOMAIN net.degrees THEN net.degrees[item_id] ELSE 0) * 2)

---------------------------------------------------------------------------
(* The sheets and the calls explored                                       *)

MaxRows == 3

MaxQueryDepth == 2

ItemIds == {<<"1">>, <<"2">>, <<"3">>}

UnknownId == <<"9", "9">>

\* Columns 0..2 of a data row: its id, a name and the type 'Item'.
Identity(id, name) ==
    (ItemID :> Txt(id)) @@ (ItemName :> Txt(name)) @@ (ItemType :> Txt(<<"I", "t", "e", "m">>))

\* The first label/value pair of dependency range 1 (columns DF and DG).
DependencyCells(target) ==
    (col_start_1 :> Txt(<<"A", "g", "e", ":", "I", "t", "e", "m">>))
        @@ ((col_start_1 + 1) :> Txt(target))

\* A flag name in column 10 with its value in column 11.
FlagCells(value) == (10 :> Txt(actuarial_liability)) @@ (11 :> Txt(value))

\* The item the queries start from and the flag cells belong to.  The ids
\* are interchangeable: no operation reads what an id is made of.
RootId == <<"1">>

\* The data rows a sheet is made of.  A row of any item depends on a known
\* item (itself included) or on the unknown id; a row of the root item may
\* instead be bare, carry a flag value, or carry a name that holds a flag
\* name.  Several rows may carry the same id, so one item can have several
\* dependencies, and the root both dependencies and a flag.
Rows ==
    {Identity(id, <<"N">>) @@ DependencyCells(t) :
        id \in ItemIds, t \in ItemIds \cup {UnknownId}}
    \cup {Identity(RootId, <<"N">>)}
    \cup {Identity(RootId, <<"N">>) @@ FlagCells(v) : v \in {<<"1">>, <<"0">>}}
    \cup {Identity(RootId, payment_risk)}

\* The sheet width: the last column of dependency range 2 exists.
SheetWidths == {col_end_2 + 1}

\* "No headers available": the four columns stay None.
NoSchema ==
    [id_item |-> NoneCol, id_event |-> NoneCol, display_group |-> NoneCol,
     item_name |-> NoneCol]

Schemas == {NoSchema}

\* A call names the root item (an item or not, as the sheet has it) or the
\* unknown id (a key of relationships when some row names it).
QueryRoots == {RootId, UnknownId}

Perms(S) ==
    {p \in [1..Cardinality(S) -> S] : \A x \in S : \E i \in DOMAIN p : p[i] = x}

RECURSIVE SetToSeq(_)
SetToSeq(S) ==
    IF S = {} THEN <<>> ELSE LET x == CHOOSE y \in S : TRUE IN <<x>> \o SetToSeq(S \ {x})

Ids(g) ==
    DOMAIN g.all_items \cup DOMAIN g.relationships \cup DOMAIN g.reverse_relationships
    \cup UNION {g.relationships[k] : k \in DOMAIN g.relationships}
    \cup UNION {g.reverse_relationships[k] : k \in DOMAIN g.reverse_relationships}

\* The iteration orders explored: every order of the items; the ids that are
\* not items come last (every loop skips them, wherever they come).
Orders(g) ==
    {p \o SetToSeq(Ids(g) \ DOMAIN g.all_items) : p \in Perms(DOMAIN g.all_items)}

\* The orders explored for the filter: it iterates a set only in
\* find_connected_items, which it calls only with a flagged item.
FilterOrders(g, rows, width) ==
    IF flagged_items(rows, width, FindFlagColumns(rows, width), g.all_items) = {}
    THEN {SetToSeq(Ids(g))}
    ELSE Orders(g)

NoQuery ==
    [called |-> FALSE, item_id |-> <<>>, max_depth |-> 0, nodes |-> <<>>, edges |-> <<>>]

NotFiltered == [raised |-> FALSE, flagged_items |-> {}, connected_items |-> {}]

\* get_column_index has not been called.
NotConverted == [called |-> FALSE, raised |-> FALSE, value |-> 0]

\* No traversal is in progress.
NoTraversal ==
    [max_depth |-> 0, turns |-> 0, visited |-> {}, queue |-> <<>>, nodes |-> <<>>,
     edges |-> <<>>]

---------------------------------------------------------------------------
(* generate_web_interface                                                  *)

\* The state at line 218: the mappings are empty, no row has been scanned.
Init ==
    /\ pc = "build"
    /\ ncols \in SheetWidths
    /\ cols \in Schemas
    /\ df = <<>>
    /\ relationships = <<>>
    /\ reverse_relationships = <<>>
    /\ all_items = <<>>
    /\ filtered = NotFiltered
    /\ query = NoQuery
    /\ sheet = <<>>
    /\ headers = NoHeaders
    /\ address = <<>>
    /\ address_index = NotConverted
    /\ traversal = NoTraversal

\* build_relationship_graph scans the next row of the sheet.
ProcessRow(row) ==
    /\ pc = "build"
    /\ Len(df) < MaxRows
    /\ LET g == BuildRow(row, ncols, cols, Graph)
       IN  /\ relationships' = g.relationships
           /\ reverse_relationships' = g.reverse_relationships
           /\ all_items' = g.all_items
    /\ df' = Append(df, row)
    /\ UNCHANGED <<pc, ncols, cols, filtered, query, sheet, headers, address,
                   address_index, traversal>>

\* The sheet has ended: build_relationship_graph returns its three mappings.
ReturnGraph ==
    /\ pc = "build"
    /\ pc' = "built"
    /\ UNCHANGED <<ncols, cols, df, relationships, reverse_relationships, all_items,
                   filtered, query, sheet, headers, address, address_index, traversal>>

\* The filter is applied to the graph built (line 474).  When it raises,
\* the assignment never happens and the run is over.
ApplyFilter(ord) ==
    /\ pc = "built"
    /\ LET out == filter_by_actuarial_payment_relationships(Graph, df, ncols, ord)
       IN  /\ pc' = IF out.raised THEN "raised" ELSE "filtered"
           /\ filtered' = [raised |-> out.raised, flagged_items |-> out.flagged_items,
                           connected_items |-> out.connected_items]
           /\ relationships' = out.g.relationships
           /\ reverse_relationships' = out.g.reverse_relationships
           /\ all_items' = out.g.all_items
    /\ UNCHANGED <<ncols, cols, df, query, sheet, headers, address, address_index,
                   traversal>>

\* A neighbourhood query on the graph the filter returned.
Query(item_id, max_depth, ord) ==
    /\ pc = "filtered"
    /\ pc' = "queried"
    /\ LET out == get_related_items(item_id, Graph, max_depth, ord)
       IN  /\ query' = [called |-> TRUE, item_id |-> item_id, max_depth |-> max_depth,
                        nodes |-> out.nodes, edges |-> out.edges]
           /\ relationships' = out.g.relationships
           /\ reverse_relationships' = out.g.reverse_relationships
           /\ all_items' = out.g.all_items
    /\ UNCHANGED <<ncols, cols, df, filtered, sheet, headers, address, address_index,
                   traversal>>

Next ==
    \/ \E row \in Rows : ProcessRow(row)
    \/ ReturnGraph
    \/ \E ord \in FilterOrders(Graph, df, ncols) : ApplyFilter(ord)
    \/ \E item_id \in QueryRoots, max_depth \in 0..MaxQueryDepth, ord \in Orders(Graph) :
          Query(item_id, max_depth, ord)

Spec == Init /\ [][Next]_vars

---------------------------------------------------------------------------
(* generate_web_interface from the rows of the file on                     *)

MaxSheetRows == 4

\* The width of the sheets read: the identity columns, a detected id
\* column, an is_quote pair and a flag pair; the dependency ranges lie
\* beyond the rows.
NarrowWidths == {12}

AnchorRow == 0 :> Txt(benefit_items)

BlankRow == <<>>

\* A header row that names column 5 id_item.
TitleRow == 5 :> Txt(id_item)

PlainRow == Identity(<<"1">>, <<"N">>)

\* Column 0 says 2, column 5 says 7, and the flag value is 1.
FlaggedRow == Identity(<<"2">>, <<"N">>) @@ (5 :> Txt(<<"7">>)) @@ FlagCells(<<"1">>)

\* Column 3 holds text of the form 6:A.
EventRow == Identity(<<"3">>, <<"N">>) @@ (3 :> Txt(<<"6", ":", "A">>))

\* is_quote in column 7 with the value 1 in column 8.
QuoteRow == Identity(<<"4">>, <<"N">>) @@ (7 :> Txt(is_quote)) @@ (8 :> Txt(<<"1">>))

SheetRows == {AnchorRow, BlankRow, TitleRow, PlainRow, FlaggedRow, EventRow, QuoteRow}

\* The state before pd.read_csv has delivered a row.
LoadInit ==
    /\ pc = "read"
    /\ ncols \in NarrowWidths
    /\ cols = NoSchema
    /\ df = <<>>
    /\ relationships = <<>>
    /\ reverse_relationships = <<>>
    /\ all_items = <<>>
    /\ filtered = NotFiltered
    /\ query = NoQuery
    /\ sheet = <<>>
    /\ headers = NoHeaders
    /\ address = <<>>
    /\ address_index = NotConverted
    /\ traversal = NoTraversal

\* The file holds one more row after DATA_START_ROW.
ReadRow(row) ==
    /\ pc = "read"
    /\ Len(sheet) < MaxSheetRows
    /\ sheet' = Append(sheet, row)
    /\ UNCHANGED <<pc, ncols, cols, df, relationships, reverse_relationships, all_items,
                   filtered, query, headers, address, address_index, traversal>>

\* result = load_and_prepare_data(csv_file_path); on None the run ends.
Load ==
    /\ pc = "read"
    /\ LET result == load_and_prepare_data(sheet, ncols)
       IN  /\ pc' = IF result.failed THEN "load_failed" ELSE "loaded"
           /\ df' = result.df
           /\ headers' = result.headers
    /\ UNCHANGED <<ncols, cols, relationships, reverse_relationships, all_items, filtered,
                   query, sheet, address, address_index, traversal>>

\* build_relationship_graph(df, headers): the column detection, then the
\* loop over the rows.
BuildGraph ==
    /\ pc = "loaded"
    /\ pc' = "built"
    /\ cols' = DetectColumns(headers, df, ncols)
    /\ LET g == build_relationship_graph(df, ncols, DetectColumns(headers, df, ncols))
       IN  /\ relationships' = g.relationships
           /\ reverse_relationships' = g.reverse_relationships
           /\ all_items' = g.all_items
    /\ UNCHANGED <<ncols, df, filtered, query, sheet, headers, address, address_index,
                   traversal>>

LoadNext ==
    \/ \E row \in SheetRows : ReadRow(row)
    \/ Load
    \/ BuildGraph
    \/ \E ord \in FilterOrders(Graph, df, ncols) : ApplyFilter(ord)

LoadSpec == LoadInit /\ [][LoadNext]_vars

---------------------------------------------------------------------------
(* Calls of get_column_index                                               *)

MaxAddressLen == 3

\* The characters an address is made of: the capital letters, a small
\* letter and a digit.
AddressChars == UpperLetters \cup {"a", "1"}

ColumnInit ==
    /\ pc = "address"
    /\ ncols \in SheetWidths
    /\ cols \in Schemas
    /\ df = <<>>
    /\ relationships = <<>>
    /\ reverse_relationships = <<>>
    /\ all_items = <<>>
    /\ filtered = NotFiltered
    /\ query = NoQuery
    /\ sheet = <<>>
    /\ headers = NoHeaders
    /\ address = <<>>
    /\ address_index = NotConverted
    /\ traversal = NoTraversal

\* The caller's string has one more character.
AddressChar(char) ==
    /\ pc = "address"
    /\ Len(address) < MaxAddressLen
    /\ address' = Append(address, char)
    /\ UNCHANGED <<pc, ncols, cols, df, relationships, reverse_relationships, all_items,
                   filtered, query, sheet, headers, address_index, traversal>>

\* get_column_index(address): the function has no statement that raises,
\* and ord() of one character never does.
ConvertAddress ==
    /\ pc = "address"
    /\ pc' = "converted"
    /\ address_index' = [called |-> TRUE, raised |-> FALSE,
                         value |-> get_column_index(address)]
    /\ UNCHANGED <<ncols, cols, df, relationships, reverse_relationships, all_items,
                   filtered, query, sheet, headers, address, traversal>>

ColumnNext ==
    \/ \E char \in AddressChars : AddressChar(char)
    \/ ConvertAddress

ColumnSpec == ColumnInit /\ [][ColumnNext]_vars

---------------------------------------------------------------------------
(* build_relationship_graph: the column detection, pass by pass            *)

MaxHeaderCols == 3

\* The headers explored: an empty one, id_item in capitals behind a space,
\* a header that only contains id_item, and three plain names.
HeaderCells ==
    {NaN, Txt(<<" ", "I", "D", "_", "I", "t", "e", "m">>), Txt(<<"m", "y", " ">> \o id_item),
     Txt(id_event), Txt(group), Txt(item_name)}

\* The cells of the first data row: empty, text of the form 6:A, and a
\* word that holds a group word.
SampleCells ==
    {NaN, Txt(<<"6", ":", "A">>), Txt(<<"b", "e", "n", "e", "f", "i", "t", "s">>)}

\* The state at line 143: the frame and the headers as
\* load_and_prepare_data returned them, no column resolved.
DetectInit ==
    /\ pc = "headers"
    /\ ncols = MaxHeaderCols
    /\ cols = UnresolvedColumns
    /\ df \in {<<>>} \cup {<<row>> : row \in [0..(MaxHeaderCols - 1) -> SampleCells]}
    /\ relationships = <<>>
    /\ reverse_relationships = <<>>
    /\ all_items = <<>>
    /\ filtered = NotFiltered
    /\ query = NoQuery
    /\ sheet = <<>>
    /\ headers \in {NoHeaders}
                   \cup {HeaderRow(row) : row \in [0..(MaxHeaderCols - 1) -> HeaderCells]}
    /\ address = <<>>
    /\ address_index = NotConverted
    /\ traversal = NoTraversal

\* Lines 149-167: the exact pass.
SearchHeaders ==
    /\ pc = "headers"
    /\ headers.present
    /\ pc' = "exact"
    /\ cols' = ExactTier(headers, ncols)
    /\ UNCHANGED <<ncols, df, relationships, reverse_relationships, all_items, filtered,
                   query, sheet, headers, address, address_index, traversal>>

\* Lines 210-211: without headers no pass runs.
NoHeadersAvailable ==
    /\ pc = "headers"
    /\ ~headers.present
    /\ pc' = "detected"
    /\ UNCHANGED <<ncols, cols, df, relationships, reverse_relationships, all_items,
                   filtered, query, sheet, headers, address, address_index, traversal>>

\* Lines 169-186: the partial pass.
TryPartial ==
    /\ pc = "exact"
    /\ pc' = "partial"
    /\ cols' = PartialTier(cols, headers, ncols)
    /\ UNCHANGED <<ncols, df, relationships, reverse_relationships, all_items, filtered,
                   query, sheet, headers, address, address_index, traversal>>

\* Lines 188-209: the pattern pass; line 213 follows.
TryPattern ==
    /\ pc = "partial"
    /\ pc' = "detected"
    /\ cols' = PatternTier(cols, df, ncols)
    /\ UNCHANGED <<ncols, df, relationships, reverse_relationships, all_items, filtered,
                   query, sheet, headers, address, address_index, traversal>>

DetectNext ==
    \/ SearchHeaders
    \/ NoHeadersAvailable
    \/ TryPartial
    \/ TryPattern

DetectSpec == DetectInit /\ [][DetectNext]_vars

---------------------------------------------------------------------------
(* build_relationship_graph and create_network_data over rows whose        *)
(* dependency ranges hold label/value pairs of several shapes              *)

\* Columns 0..2 of a data row.
Typed(id, name, type) ==
    (ItemID :> Txt(id)) @@ (ItemName :> Txt(name)) @@ (ItemType :> Txt(type))

\* A label cell and the value cell right of it.
Pair(start_col, label, value) == (start_col :> Txt(label)) @@ ((start_col + 1) :> Txt(value))

ItemLabel == <<"A", "g", "e", ":", "I", "t", "e", "m">>

\* The labels explored: typed Item, without a colon, and of another type.
Labels == {ItemLabel, <<"A", "g", "e">>, <<"A", "g", "e", ":", "O", "t", "h", "e", "r">>}

\* The dependency cells of a row: none, one pair at the start of range 1
\* under each label, or one Item pair at the start of range 2.  Every pair
\* names item 1.
PairCells ==
    {<<>>} \cup {Pair(col_start_1, label, <<"1">>) : label \in Labels}
    \cup {Pair(col_start_2, ItemLabel, <<"1">>)}

\* Rows of items 1 and 2, of type Item or Series; a second name for item 1;
\* and a row whose id cell is empty.
ExtractRows ==
    {Typed(id, <<"N">>, type) @@ cells :
        id \in {<<"1">>, <<"2">>}, type \in item_type_names, cells \in PairCells}
    \cup {Typed(<<"1">>, <<"M">>, <<"I", "t", "e", "m">>)}
    \cup {Pair(col_start_1, ItemLabel, <<"1">>)}

ExtractNext ==
    \/ \E row \in ExtractRows : ProcessRow(row)
    \/ ReturnGraph

ExtractSpec == Init /\ [][ExtractNext]_vars

---------------------------------------------------------------------------
(* The two traversals, one turn of their loop at a time                    *)

\* A depth limit far beyond the depth of any graph explored.
LargeDepth == 1000

TraverseDepths == {0, 1, LargeDepth}

\* The rows of the graphs traversed: every item depends on every item,
\* itself included, so the graphs have cycles, mutual references and
\* self-references.
TraverseRows == {Identity(id, <<"N">>) @@ DependencyCells(t) : id \in ItemIds, t \in ItemIds}

\* get_related_items(item_id, ..., max_depth) up to "while queue"; an
\* unknown root returns at line 318.
StartQuery(item_id, max_depth) ==
    /\ pc = "built"
    /\ IF KnownRoot(item_id, Graph)
       THEN /\ pc' = "query"
            /\ traversal' = [max_depth |-> max_depth, turns |-> 0, visited |-> {item_id},
                             queue |-> << <<item_id, 0>> >>, nodes |-> <<>>, edges |-> <<>>]
       ELSE /\ pc' = "returned"
            /\ UNCHANGED traversal
    /\ UNCHANGED <<ncols, cols, df, relationships, reverse_relationships, all_items,
                   filtered, query, sheet, headers, address, address_index>>

\* One turn of the loop of get_related_items (lines 328-350).
QueryTurn(ord) ==
    /\ pc = "query"
    /\ traversal.queue # <<>>
    /\ LET st == QueryStep([visited |-> traversal.visited, queue |-> traversal.queue,
                            nodes |-> traversal.nodes, edges |-> traversal.edges,
                            g |-> Graph],
                           traversal.max_depth, ord)
       IN  /\ traversal' = [traversal EXCEPT !.turns = @ + 1, !.visited = st.visited,
                                             !.queue = st.queue, !.nodes = st.nodes,
                                             !.edges = st.edges]
           /\ relationships' = st.g.relationships
           /\ reverse_relationships' = st.g.reverse_relationships
           /\ all_items' = st.g.all_items
    /\ UNCHANGED <<pc, ncols, cols, df, filtered, query, sheet, headers, address,
                   address_index>>

\* The queue is empty: return nodes, edges (line 352).
QueryReturn ==
    /\ pc = "query"
    /\ traversal.queue = <<>>
    /\ pc' = "returned"
    /\ query' = [called |-> TRUE, item_id |-> traversal.nodes[1].id,
                 max_depth |-> traversal.max_depth, nodes |-> traversal.nodes,
                 edges |-> traversal.edges]
    /\ UNCHANGED <<ncols, cols, df, relationships, reverse_relationships, all_items,
                   filtered, sheet, headers, address, address_index, traversal>>

\* find_connected_items(start_items, ...) up to "while queue" (lines 433-434).
StartConnect(start_items, ord) ==
    /\ pc = "built"
    /\ pc' = "connect"
    /\ traversal' = [max_depth |-> FilterMaxDepth, turns |-> 0, visited |-> start_items,
                     queue |-> [i \in 1..Len(IterOrder(start_items, ord)) |->
                                   <<IterOrder(start_items, ord)[i], 0>>],
                     nodes |-> <<>>, edges |-> <<>>]
    /\ UNCHANGED <<ncols, cols, df, relationships, reverse_relationships, all_items,
                   filtered, query, sheet, headers, address, address_index>>

\* One turn of the loop of find_connected_items (lines 436-451).
ConnectTurn(ord) ==
    /\ pc = "connect"
    /\ traversal.queue # <<>>
    /\ LET st == ConnectStep([connected |-> traversal.visited, queue |-> traversal.queue],
                             Graph, traversal.max_depth, ord)
       IN  traversal' = [traversal EXCEPT !.turns = @ + 1, !.visited = st.connected,
                                          !.queue = st.queue]
    /\ UNCHANGED <<pc, ncols, cols, df, relationships, reverse_relationships, all_items,
                   filtered, query, sheet, headers, address, address_index>>

\* The queue is empty: return connected (line 453).
ConnectReturn ==
    /\ pc = "connect"
    /\ traversal.queue = <<>>
    /\ pc' = "returned"
    /\ filtered' = [filtered EXCEPT !.connected_items = traversal.visited]
    /\ UNCHANGED <<ncols, cols, df, relationships, reverse_relationships, all_items, query,
                   sheet, headers, address, address_index, traversal>>

TraverseTurn ==
    \/ \E ord \in Orders(Graph) : QueryTurn(ord)
    \/ QueryReturn
    \/ \E ord \in Orders(Graph) : ConnectTurn(ord)
    \/ ConnectReturn

TraverseNext ==
    \/ \E row \in TraverseRows : ProcessRow(row)
    \/ ReturnGraph
    \/ \E item_id \in QueryRoots, max_depth \in TraverseDepths : StartQuery(item_id, max_depth)
    \/ \E start_items \in SUBSET DOMAIN all_items, ord \in Orders(Graph) :
          start_items # {} /\ StartConnect(start_items, ord)
    \/ TraverseTurn

TraverseSpec == Init /\ [][TraverseNext]_vars

\* The interpreter keeps running the loop it is in.
TraverseFairSpec == TraverseSpec /\ WF_vars(TraverseTurn)

---------------------------------------------------------------------------
(* Properties                                                              *)

NodeIds(nodes) == {nodes[i].id : i \in DOMAIN nodes}

Known(id) == id \in DOMAIN all_items

\* The ids one hop from x along either mapping.
Neighbours(g, x) == DictGet(g.relationships, x) \cup DictGet(g.reverse_relationships, x)

\* The ids at most k hops from the set S over the union of both mappings.
RECURSIVE Within(_, _, _)
Within(g, S, k) ==
    IF k = 0 THEN S
    ELSE Within(g, S \cup UNION {Neighbours(g, x) : x \in S}, k - 1)

\* The same, along paths that pass through items only.
RECURSIVE WithinItems(_, _, _)
WithinItems(g, S, k) ==
    IF k = 0 THEN S
    ELSE WithinItems(g, S \cup (UNION {Neighbours(g, x) : x \in S} \cap DOMAIN g.all_items),
                     k - 1)

\* C1: in every state of a run (while rows are scanned, once the graph is
\* returned, once the filter has been applied to it) b is a dependent of a
\* exactly when a is a dependency of b.
C1_MutualInverses ==
    \A a \in Ids(Graph), b \in Ids(Graph) :
        b \in DictGet(relationships, a) <=> a \in DictGet(reverse_relationships, b)

\* The filter has been applied to a graph that has an edge between two items.
C1_Witness ==
    /\ pc = "filtered"
    /\ \E a \in DOMAIN all_items, b \in DOMAIN all_items :
          a # b /\ b \in DictGet(relationships, a)

\* C2: once extraction has returned, every id that is a key or a member of
\* either mapping is the id of an item.
C2_NoDanglingEdges == pc = "built" => Ids(Graph) \subseteq DOMAIN all_items

\* C3: for a known root every item is reported at most once, the depth
\* reported is the least number of hops from the root over the union of both
\* mappings, and the items reported are those at most max_depth hops away.
C3_ShortestHopCount ==
    (query.called /\ Known(query.item_id)) =>
        /\ \A i \in DOMAIN query.nodes, j \in DOMAIN query.nodes :
              query.nodes[i].id = query.nodes[j].id => i = j
        /\ \A i \in DOMAIN query.nodes :
              LET n == query.nodes[i]
              IN  /\ n.id \in Within(Graph, {query.item_id}, n.depth)
                  /\ n.depth > 0 => n.id \notin Within(Graph, {query.item_id}, n.depth - 1)
        /\ NodeIds(query.nodes)
              = Within(Graph, {query.item_id}, query.max_depth) \cap DOMAIN all_items

\* What holds in place of C3: the same with the hops counted along paths
\* whose inner ids are all items (the traversal never steps on an id that is
\* not one).
QueryDepthsOverItems ==
    (query.called /\ Known(query.item_id)) =>
        /\ \A i \in DOMAIN query.nodes, j \in DOMAIN query.nodes :
              query.nodes[i].id = query.nodes[j].id => i = j
        /\ \A i \in DOMAIN query.nodes :
              LET n == query.nodes[i]
              IN  /\ n.id \in WithinItems(Graph, {query.item_id}, n.depth)
                  /\ n.depth > 0 =>
                        n.id \notin WithinItems(Graph, {query.item_id}, n.depth - 1)
        /\ NodeIds(query.nodes) = WithinItems(Graph, {query.item_id}, query.max_depth)

\* C4: the ids returned for max_depth D are among the ids returned for
\* D + 1 from the same root, whatever order the sets are iterated in.
C4_MonotoneInDepth ==
    query.called =>
        \A ord \in Orders(Graph) :
            NodeIds(query.nodes) \subseteq
                NodeIds(get_related_items(query.item_id, Graph, query.max_depth + 1,
                                          ord).nodes)

\* A call with max_depth 1 that returned two items, where one more hop
\* returns a third.
C4_Witness ==
    /\ query.called /\ query.max_depth = 1 /\ Len(query.nodes) = 2
    /\ \E ord \in Orders(Graph) :
          Len(get_related_items(query.item_id, Graph, 2, ord).nodes) = 3

\* C5: with max_depth 0 a known root is the only node returned, at depth 0,
\* and no edge is returned.
C5_DepthZero ==
    (query.called /\ Known(query.item_id) /\ query.max_depth = 0) =>
        /\ query.nodes = <<WithDepth(all_items[query.item_id], 0)>>
        /\ query.edges = <<>>

\* Such a call on a root that depends on itself and on another item.
C5_Witness ==
    /\ query.called /\ Known(query.item_id) /\ query.max_depth = 0
    /\ query.item_id \in DictGet(reverse_relationships, query.item_id)
    /\ \E x \in DOMAIN all_items :
          x # query.item_id /\ x \in DictGet(reverse_relationships, query.item_id)

\* C6: whenever the filter is applied to a sheet with a flagged item it
\* returns a graph, and applied again to that graph with the same rows it
\* returns the same graph.
C6_FilterIdempotent ==
    (pc \in {"filtered", "raised"} /\ filtered.flagged_items # {}) =>
        /\ ~filtered.raised
        /\ \A ord \in Orders(Graph) :
              LET again == filter_by_actuarial_payment_relationships(Graph, df, ncols, ord)
              IN  ~again.raised /\ again.g = Graph

\* C7: a call whose root is not an item returns no node and no edge.
C7_UnknownRootEmpty ==
    (query.called /\ ~Known(query.item_id)) => (query.nodes = <<>> /\ query.edges = <<>>)

\* Such a call with max_depth >= 1 on a root that is a key of relationships
\* with an item among its dependents.
C7_Witness ==
    /\ query.called /\ ~Known(query.item_id) /\ query.max_depth >= 1
    /\ query.item_id \in DOMAIN relationships
    /\ relationships[query.item_id] \cap DOMAIN all_items # {}

\* C8: for a known root there is one edge per node after the root, in the
\* order of the nodes.  Edge i runs from a dependency to its dependent in
\* the graph, joins node i + 1, reported for the first time, to an earlier
\* node that lies one level higher, below max_depth.
C8_TraversalEdges ==
    (query.called /\ Known(query.item_id)) =>
        /\ Len(query.edges) = Len(query.nodes) - 1
        /\ \A i \in DOMAIN query.edges :
              LET x == query.edges[i][1]
                  y == query.edges[i][2]
                  new == query.nodes[i + 1]
              IN  /\ x \in DictGet(reverse_relationships, y)
                  /\ y \in DictGet(relationships, x)
                  /\ new.id \in {x, y}
                  /\ \A j \in 1..i : query.nodes[j].id # new.id
                  /\ \E j \in 1..i :
                        /\ {query.nodes[j].id, new.id} = {x, y}
                        /\ query.nodes[j].depth < query.max_depth
                        /\ new.depth = query.nodes[j].depth + 1

\* A call that returned an edge towards the root from a dependency and an
\* edge from the root to a dependent, and met an item it had already visited.
C8_Witness ==
    /\ query.called /\ Known(query.item_id) /\ Len(query.edges) = 2
    /\ \E i, j \in DOMAIN query.edges :
          /\ query.edges[i][2] = query.item_id
          /\ query.edges[j][1] = query.item_id
    /\ \E a \in NodeIds(query.nodes), b \in NodeIds(query.nodes) :
          /\ a # query.item_id /\ b # query.item_id /\ a # b
          /\ b \in Neighbours(Graph, a)

\* C9: a call of get_related_items, whatever its root and max_depth, leaves
\* both mappings and the item table as they were.
C9_QueryLeavesGraph ==
    [][pc' = "queried" =>
          /\ relationships' = relationships
          /\ reverse_relationships' = reverse_relationships
          /\ all_items' = all_items]_vars

\* A call has expanded an item that is not a key of relationships, and the
\* graph is still the graph that was built from the rows.
C9_Witness ==
    /\ pc = "queried" /\ Known(query.item_id) /\ Len(query.nodes) >= 2
    /\ \E i \in DOMAIN query.nodes :
          /\ query.nodes[i].depth < query.max_depth
          /\ query.nodes[i].id \notin DOMAIN relationships
    /\ Graph = build_relationship_graph(df, ncols, cols)

\* No row holds '1' in the column to the right of a column that holds a
\* flag name.
NoFlagValue ==
    \A col \in TextColumns(df, ncols) :
        FlagNameOf(df, col) # <<>> =>
            \A i \in DOMAIN df : Strip(PyStr(iloc(df[i], col + 1))) # <<"1">>

\* C10: applied to a sheet where no item is flagged, the filter raises
\* nothing and returns the graph that was built, unchanged.
C10_NoFlagNoOp ==
    (pc \in {"filtered", "raised"} /\ NoFlagValue) =>
        (pc = "filtered" /\ Graph = build_relationship_graph(df, ncols, cols))

\* What holds in place of C10: the same, for the sheets whose columns 0 to
\* 2 hold no flag name.
NoFlagNoOpOutsideIdentityColumns ==
    (pc \in {"filtered", "raised"} /\ NoFlagValue
        /\ \A col \in {ItemID, ItemName, ItemType} : FlagNameOf(df, col) = <<>>) =>
        (pc = "filtered" /\ Graph = build_relationship_graph(df, ncols, cols))

\* The dependency of a scanned row whose first pair of range 1 is a label
\* P:Item or P:Series and the id of an item: the label P, the row's item
\* r and the referenced item t.
KnownDependencies ==
    {[name |-> BeforeColon(iloc(df[i], col_start_1).s),
      r    |-> CanonicalId(df[i], ncols, cols),
      t    |-> Strip(PyStr(iloc(df[i], col_start_1 + 1)))] :
        i \in {k \in DOMAIN df :
                  /\ notna(iloc(df[k], col_start_1))
                  /\ HasColon(iloc(df[k], col_start_1).s)
                  /\ Strip(AfterColon(iloc(df[k], col_start_1).s)) \in item_type_names
                  /\ Strip(PyStr(iloc(df[k], col_start_1 + 1))) \in DOMAIN all_items}}

\* C11: once the graph is returned, every such dependency is the edge
\* t -> r of the graph, r -> t is no edge unless a row of t names r, and the
\* label P is not the source of any edge.
C11_DependencyEdge ==
    pc = "built" =>
        \A d \in KnownDependencies :
            /\ d.r \in DictGet(relationships, d.t)
            /\ (\A e \in KnownDependencies : ~(e.r = d.t /\ e.t = d.r))
                  => d.t \notin DictGet(relationships, d.r)
            /\ d.name \notin DOMAIN relationships

\* The direction extraction gives the edge in both programs: the explorer
\* records t -> r, create_network_data of the backup records from = r, to = t
\* with the label P.
EdgeDirections ==
    pc = "built" =>
        \A d \in KnownDependencies :
            /\ d.r \in DictGet(relationships, d.t)
            /\ [from |-> d.r, to |-> d.t, name |-> d.name] \in create_network_data(df, ncols)

\* load_and_prepare_data has returned a frame.
Loaded == pc \in {"loaded", "built", "filtered", "raised"}

\* The position in the sheet (from 1) of the first row that holds the anchor
\* text, 0 without one.
AnchorPosition ==
    IF \E i \in DOMAIN sheet : HasAnchor(sheet[i])
    THEN CHOOSE i \in DOMAIN sheet :
             HasAnchor(sheet[i]) /\ \A j \in 1..(i - 1) : ~HasAnchor(sheet[j])
    ELSE 0

\* The rows from two rows after the anchor up to, not including, the first
\* blank row there.
RowsUpToBlank ==
    LET first  == AnchorPosition + 2
        blanks == {i \in first..Len(sheet) : IsBlank(sheet[i])}
        last   == IF blanks = {} THEN Len(sheet)
                  ELSE (CHOOSE i \in blanks : \A j \in blanks : i <= j) - 1
    IN  SubSeq(sheet, first, last)

\* Some row of the sheet holds 'is_quote' in a numbered column.
HasQuoteColumn ==
    \E i \in DOMAIN sheet : \E c \in DOMAIN sheet[i] :
        c \notin {ItemID, ItemName, ItemType}
            /\ Contains(is_quote, Lower(PyStr(sheet[i][c])))

\* C12: with the anchor in the sheet, the header row is the row after the
\* first anchor row, no blank row is part of the data, the data are rows
\* from two after the anchor up to the first blank row, and all of them
\* when the sheet has no is_quote column.
C12_DataRegion ==
    (Loaded /\ AnchorPosition > 0) =>
        /\ headers = HeaderRow(sheet[AnchorPosition + 1])
        /\ \A i \in DOMAIN df : ~IsBlank(df[i])
        /\ Len(df) <= Len(RowsUpToBlank)
        /\ ~HasQuoteColumn => df = RowsUpToBlank

\* The rows of the sheet that are, or are not, among the data returned.
Kept(row) == \E i \in DOMAIN df : df[i] = row

\* The row holds '1' right of a numbered column that holds 'is_quote' in
\* some row of the sheet.
QuoteMarked(row) ==
    \E c \in DOMAIN row :
        /\ PyStr(row[c]) = <<"1">>
        /\ c - 1 \notin {ItemID, ItemName, ItemType}
        /\ \E i \in DOMAIN sheet :
              c - 1 \in DOMAIN sheet[i]
                  /\ Contains(is_quote, Lower(PyStr(sheet[i][c - 1])))

\* C13 as stated: without the anchor in the sheet the load does not fail,
\* no header row is returned and the data are all rows of the sheet.
C13_WholeSheet ==
    (pc # "read" /\ AnchorPosition = 0) =>
        (pc # "load_failed" /\ headers = NoHeaders /\ df = sheet)

\* C13 amended: without the anchor the load does not fail, no header row is
\* returned, the data are rows of the sheet in their order, and a row is
\* missing only if the is_quote filter removes it.  No blank row is missing.
C13_WholeSheetButQuotes ==
    (pc # "read" /\ AnchorPosition = 0) =>
        /\ pc # "load_failed"
        /\ headers = NoHeaders
        /\ df = SelectSeq(sheet, Kept)
        /\ \A i \in DOMAIN sheet : ~Kept(sheet[i]) => QuoteMarked(sheet[i])
        /\ \A i \in DOMAIN sheet : IsBlank(sheet[i]) => Kept(sheet[i])

\* A sheet without the anchor, with a blank row ahead of a data row that is
\* returned, and with a row the is_quote filter removed.
C13_Witness ==
    /\ pc = "loaded" /\ AnchorPosition = 0
    /\ \E i \in DOMAIN df : IsBlank(df[i]) /\ i < Len(df)
    /\ Len(df) < Len(sheet)

\* The first data row holds, among its first 30 cells, text of the form
\* text:text with exactly one colon.
SampleHasEvent ==
    /\ df # <<>>
    /\ \E c \in DOMAIN df[1] :
          /\ c < 30 /\ c < ncols /\ notna(df[1][c])
          /\ OneColon(Strip(PyStr(df[1][c])))
          /\ BeforeColon(Strip(PyStr(df[1][c]))) # <<>>
          /\ AfterColon(Strip(PyStr(df[1][c]))) # <<>>

\* C14: when no header row was returned and the first data row holds such
\* a cell, the detection resolves id_event.
C14_PatternFallback ==
    (pc \in {"built", "filtered", "raised"} /\ ~headers.present /\ SampleHasEvent) =>
        cols.id_event # NoneCol

\* What the code does with the pattern: it is tried only under a header
\* row, so without one all four columns stay None.
NoHeadersNoSchema ==
    (pc \in {"built", "filtered", "raised"} /\ ~headers.present) => cols = NoSchema

\* A spreadsheet column address: capital letters, at least one.
ValidAddress(s) == s # <<>> /\ \A i \in DOMAIN s : s[i] \in UpperLetters

\* The place of a capital letter in the alphabet, from 0.
LetterValue(c) == CHOOSE k \in 0..25 : Ascii[34 + k] = c

\* C15: A is 0, Z is 25, AA is 26, DF is 109, AAA is 702, one past ZZ; a
\* single letter has its place in the alphabet, and s followed by the letter
\* c has index 26 * (index of s + 1) + the place of c.
C15_SpreadsheetNumbering ==
    (pc = "converted" /\ ValidAddress(address)) =>
        /\ address = <<"A">> => address_index.value = 0
        /\ address = <<"Z">> => address_index.value = 25
        /\ address = <<"A", "A">> => address_index.value = 26
        /\ address = <<"D", "F">> => address_index.value = 109
        /\ address = <<"A", "A", "A">> =>
              address_index.value = get_column_index(<<"Z", "Z">>) + 1
        /\ Len(address) = 1 => address_index.value = LetterValue(address[1])
        /\ Len(address) > 1 =>
              address_index.value
                  = 26 * (get_column_index(SubSeq(address, 1, Len(address) - 1)) + 1)
                      + LetterValue(address[Len(address)])

\* AAA has been converted.
C15_Witness ==
    /\ pc = "converted" /\ address = <<"A", "A", "A">>
    /\ address_index.value = 702

\* The letters of the column with index n: the inverse the claim names.
RECURSIVE toLetters(_)
toLetters(n) ==
    IF n < 0 THEN <<>> ELSE toLetters((n \div 26) - 1) \o <<Ascii[34 + (n % 26)]>>

\* The number of addresses of at most n letters.
RECURSIVE AddressCount(_)
AddressCount(n) == IF n = 0 THEN 0 ELSE 26 * (AddressCount(n - 1) + 1)

\* C16: the letters of the index of a valid address are the address, and the
\* index of an address of n letters is one of the AddressCount(n) first
\* naturals; so distinct addresses have distinct indices and the addresses of
\* at most n letters fill 0 .. AddressCount(n) - 1.
C16_RoundTrip ==
    (pc = "converted" /\ ValidAddress(address)) =>
        /\ toLetters(address_index.value) = address
        /\ address_index.value \in 0..(AddressCount(Len(address)) - 1)

\* ZZZ, the last address of three letters, has been converted.
C16_Witness ==
    /\ pc = "converted" /\ address = <<"Z", "Z", "Z">>
    /\ address_index.value = AddressCount(3) - 1

\* C17: for the empty string and for a string with a character that is no
\* letter the call fails and returns no index.
C17_InvalidAddress ==
    (pc = "converted"
        /\ (address = <<>>
               \/ \E i \in DOMAIN address : address[i] \notin UpperLetters \cup LowerLetters)) =>
        address_index.raised

\* What the code returns for the empty string.
EmptyAddressIsMinusOne ==
    (pc = "converted" /\ address = <<>>) => (~address_index.raised /\ address_index.value = -1)

\* C18: no run from the rows of a readable file ends in an error that
\* nothing handles: the filter returns whenever it is called.
C18_NoUnrecoveredError == pc # "raised"

\* The anchor on the last row of the sheet: headers = df.iloc[benefit_row + 1]
\* raises, the except clause of line 121 prints it and returns None, and
\* generate_web_interface returns without a graph.
AnchorOnLastRowNoGraph ==
    (pc # "read" /\ AnchorPosition > 0 /\ AnchorPosition = Len(sheet)) => pc = "load_failed"

\* The mapping d with every key and member outside keep dropped, and no key
\* left with an empty set.
Restricted(d, keep) ==
    [k \in {x \in DOMAIN d \cap keep : d[x] \cap keep # {}} |-> d[k] \cap keep]

\* C19: with a flagged item the filter returns the items at most 10 hops
\* from a flagged item over the union of both mappings of the graph built,
\* and the two mappings restricted to them.
C19_FilterKeepsWithinTen ==
    (pc \in {"filtered", "raised"} /\ filtered.flagged_items # {}) =>
        LET built == build_relationship_graph(df, ncols, cols)
            keep  == Within(built, filtered.flagged_items, FilterMaxDepth)
                        \cap DOMAIN built.all_items
        IN  /\ pc = "filtered"
            /\ DOMAIN all_items = keep
            /\ \A id \in keep : all_items[id] = built.all_items[id]
            /\ relationships = Restricted(built.relationships, keep)
            /\ reverse_relationships = Restricted(built.reverse_relationships, keep)

\* The columns in which some data row holds one of the three flag names.
FlagNameColumns ==
    {c \in 0..(ncols - 1) :
        \E i \in DOMAIN df :
            \E name \in {actuarial_liability, payment_risk, payment_insured} :
                Contains(name, Lower(PyStr(iloc(df[i], c))))}

\* The rows that made the item: those whose canonical id it is.
OwnRows(id) == {i \in DOMAIN df : CanonicalId(df[i], ncols, cols) = id}

\* The cell right of some flag name column of the row trims to '1'.
HasFlagValue(row) ==
    \E c \in FlagNameColumns :
        c + 1 < ncols /\ Strip(PyStr(iloc(row, c + 1))) = <<"1">>

\* C20: once the filter has looked for flags, an item of the item table is
\* flagged exactly when one of its own rows holds the value 1 right of a
\* flag name column.
C20_FlaggedIffOwnRow ==
    pc \in {"filtered", "raised"} =>
        \A id \in DOMAIN all_items :
            id \in filtered.flagged_items <=> \E i \in OwnRows(id) : HasFlagValue(df[i])

\* What holds in place of C20: the same for the sheets where no id_item
\* column was detected, so that every id comes from column 0.
FlaggedIffOwnRowByColumnZero ==
    (pc \in {"filtered", "raised"} /\ cols.id_item = NoneCol) =>
        \A id \in DOMAIN all_items :
            id \in filtered.flagged_items <=> \E i \in OwnRows(id) : HasFlagValue(df[i])


Fields == {"id_item", "id_event", "display_group", "item_name"}

FieldName(f) ==
    CASE f = "id_item" -> id_item
      [] f = "id_event" -> id_event
      [] f = "display_group" -> display_group
      [] f = "item_name" -> item_name

NamedColumns == {c \in DOMAIN headers.row : c < ncols /\ notna(headers.row[c])}

\* The columns whose header is the field's name.
ExactColumns(f) ==
    {c \in NamedColumns : header_str(headers.row[c]) = FieldName(f)}

\* The columns whose header contains the field's name (or the word group,
\* for display_group).
PartialColumns(f) ==
    {c \in NamedColumns :
        \/ Contains(FieldName(f), header_str(headers.row[c]))
        \/ f = "display_group" /\ Contains(group, header_str(headers.row[c]))}

\* The columns whose cell in the first data row has the field's pattern.
PatternColumns(f) ==
    IF df = <<>> THEN {}
    ELSE {c \in DOMAIN df[1] :
            /\ c < ncols /\ notna(df[1][c])
            /\ LET value == Strip(PyStr(df[1][c]))
               IN  \/ f = "id_event" /\ OneColon(value)
                   \/ /\ f = "display_group" /\ Len(value) > 5
                      /\ \E word \in group_words : Contains(word, Lower(value))}

TierColumns(tier, f) ==
    CASE tier = "exact" -> ExactColumns(f)
      [] tier = "partial" -> PartialColumns(f)
      [] tier = "detected" -> PatternColumns(f)
      [] OTHER -> {}

\* C21: the detection is a priority chain per field.  No pass changes a
\* field that an earlier pass resolved (column 0 included); a pass that
\* sets a field sets it to a column its own test accepts, the exact pass to
\* a column with the exact name whenever there is one; a field no pass sets
\* stays None.
C21_TierPriority ==
    [][\A f \in Fields :
          /\ cols[f] # NoneCol => cols'[f] = cols[f]
          /\ cols'[f] # cols[f] => cols'[f] \in TierColumns(pc', f)
          /\ pc' = "exact" /\ ExactColumns(f) # {} => cols'[f] \in ExactColumns(f)]_vars

\* id_item was resolved by its exact name at column 0 while another header
\* contains id_item; display_group came from the partial pass, id_event
\* from the pattern pass, and item_name stayed None.
C21_Witness ==
    /\ pc = "detected"
    /\ cols.id_item = 0
    /\ PartialColumns("id_item") \ {0} # {}
    /\ ExactColumns("display_group") = {} /\ cols.display_group \in PartialColumns("display_group")
    /\ PartialColumns("id_event") = {} /\ cols.id_event \in PatternColumns("id_event")
    /\ cols.item_name = NoneCol


\* The cell of a row at a column holds text that is not blank.
HasText(row, col) ==
    col # NoneCol /\ col < ncols /\ notna(iloc(row, col)) /\ Strip(PyStr(iloc(row, col))) # <<>>

\* A row has an id: in the resolved id_item column or in column 0.
HasId(row) == HasText(row, cols.id_item) \/ HasText(row, ItemID)

\* The id of a row that has one: the id_item cell, else column 0.
IdOf(row) ==
    IF HasText(row, cols.id_item) THEN Strip(PyStr(iloc(row, cols.id_item)))
    ELSE Strip(PyStr(iloc(row, ItemID)))

RowIds == {IdOf(df[i]) : i \in {j \in DOMAIN df : HasId(df[j])}}

\* C22: a data row without an id is skipped: the items are the ids of the
\* rows that have one (the id_item cell, else column 0), so there is no
\* item 'nan', and every dependent in the mappings is the id of such a row.
C22_EmptyIdSkipped ==
    pc = "built" =>
        /\ DOMAIN all_items = RowIds
        /\ \A t \in DOMAIN relationships : relationships[t] \subseteq RowIds
        /\ DOMAIN reverse_relationships \subseteq RowIds


\* The rows in the order p.
Reordered(rows, p) == [k \in DOMAIN rows |-> rows[p[k]]]

RowId(i) == CanonicalId(df[i], ncols, cols)

DistinctIds == \A i, j \in DOMAIN df : i # j => RowId(i) # RowId(j)

\* Row i names, in its first label/value pair, the id of the later row j.
ForwardReference(i, j) ==
    /\ i < j
    /\ col_start_1 \in DOMAIN df[i] /\ (col_start_1 + 1) \in DOMAIN df[i]
    /\ DepId(Strip(PyStr(iloc(df[i], col_start_1 + 1)))) = RowId(j)

\* C23: a reference to an item defined on a later row gets its edge, in
\* the mappings and in the edge list of create_network_data; and for rows
\* with pairwise distinct ids every ordering of the rows gives the same
\* mappings and the same edge set.
C23_OrderIndependent ==
    pc = "built" =>
        /\ \A i, j \in DOMAIN df :
              ForwardReference(i, j) =>
                  /\ RowId(i) \in DictGet(relationships, RowId(j))
                  /\ RowId(j) \in DictGet(reverse_relationships, RowId(i))
                  /\ \E e \in create_network_data(df, ncols) :
                        e.from = RowId(i) /\ e.to = RowId(j)
        /\ DistinctIds =>
              \A p \in Perms(DOMAIN df) :
                  /\ build_relationship_graph(Reordered(df, p), ncols, cols).relationships
                        = relationships
                  /\ build_relationship_graph(Reordered(df, p), ncols, cols).reverse_relationships
                        = reverse_relationships
                  /\ create_network_data(Reordered(df, p), ncols)
                        = create_network_data(df, ncols)

\* Three rows with distinct ids, the first naming the item of the last.
C23_Witness ==
    /\ pc = "built" /\ Len(df) = 3 /\ DistinctIds
    /\ ForwardReference(1, 3)


\* The ids build_relationship_graph reads from the cells of a range.
Tokens(row, first, last) ==
    {DepId(Strip(PyStr(iloc(row, c)))) : c \in DependencyColumns(row, ncols, first, last)}

\* C24: range 1 is scanned for every row, range 2 only for a row whose type
\* contains Series: every dependent of a key comes from a range-1 cell of
\* one of its rows or from a range-2 cell of one of its Series rows (so a
\* range-2 cell of another row makes no edge), and every such cell has its
\* edge.
C24_Range2OnlySeries ==
    pc = "built" =>
        /\ \A t \in DOMAIN relationships : \A r \in relationships[t] :
              \E i \in DOMAIN df :
                  /\ RowId(i) = r
                  /\ \/ t \in Tokens(df[i], col_start_1, col_end_1)
                     \/ IsSeries(df[i]) /\ t \in Tokens(df[i], col_start_2, col_end_2)
        /\ \A i \in DOMAIN df :
              \A t \in Tokens(df[i], col_start_1, col_end_1)
                       \cup (IF IsSeries(df[i]) THEN Tokens(df[i], col_start_2, col_end_2)
                             ELSE {}) :
                  RowId(i) \in DictGet(relationships, t)

\* The value of a (label, value) pair of a row whose label is typed Item or
\* Series, in either range.
TypedReferences(row) ==
    {Strip(PyStr(iloc(row, c + 1))) :
        c \in {i \in ParamNameColumns(row, ncols, col_start_1, col_end_1)
                       \cup ParamNameColumns(row, ncols, col_start_2, col_end_2) :
                  /\ notna(iloc(row, i)) /\ HasColon(iloc(row, i).s)
                  /\ Strip(AfterColon(iloc(row, i).s)) \in item_type_names
                  /\ notna(iloc(row, i + 1))}}

\* C25: a reference comes only from the value cell of a pair whose label
\* holds a colon and is typed Item or Series: every dependency of an item
\* is such a value of one of its rows, so no label cell and no value under
\* another label is a dependency.
C25_TypedLabelOnly ==
    pc = "built" =>
        \A r \in DOMAIN reverse_relationships : \A t \in reverse_relationships[r] :
            \E i \in DOMAIN df : RowId(i) = r /\ t \in TypedReferences(df[i])

LastRowOf(id) == CHOOSE i \in DOMAIN df : RowId(i) = id /\ \A j \in DOMAIN df : RowId(j) = id => j <= i

\* The record line 283 builds from a row under the id given.
RecordOf(row, id, info) ==
    LET name == Strip(PyStr(iloc(row, ItemName)))
    IN  /\ info.id = id
        /\ info.type = (IF notna(iloc(row, ItemType)) THEN PyStr(iloc(row, ItemType))
                        ELSE <<"U", "n", "k", "n", "o", "w", "n">>)
        /\ info.node_name = (IF notna(iloc(row, ItemName)) THEN name ELSE id)
        /\ info.name = (IF notna(iloc(row, ItemName)) /\ name # id
                        THEN id \o <<" ", "-", " ">> \o name ELSE id)

\* C26: the Item table has exactly one record per distinct non-empty id of
\* the rows, and the record of an id is built from the last row that
\* carries it: its node name is that row's name, its name the id and that
\* name, its type that row's type.
C26_OneRecordPerId ==
    pc = "built" =>
        /\ DOMAIN all_items = RowIds
        /\ \A id \in DOMAIN all_items \cap RowIds :
              RecordOf(df[LastRowOf(id)], id, all_items[id])

\* With the id of a row read as line 222-225 computes it ('nan' for an
\* empty id cell) the statement holds: one record per id, from the last
\* row that carries it.
LastWriteWinsByCanonicalId ==
    pc = "built" =>
        /\ DOMAIN all_items = {RowId(i) : i \in DOMAIN df} \ {<<>>}
        /\ \A id \in DOMAIN all_items : RecordOf(df[LastRowOf(id)], id, all_items[id])

\* Item 1 is on three rows whose names or types differ, the last one named M.
LastWriteWinsWitness ==
    /\ pc = "built" /\ Len(df) = 3
    /\ \A i \in DOMAIN df : RowId(i) = <<"1">>
    /\ iloc(df[1], ItemType) # iloc(df[2], ItemType)
    /\ iloc(df[3], ItemName) = Txt(<<"M">>)
    /\ iloc(df[2], ItemName) # iloc(df[3], ItemName)


Traversing == pc \in {"query", "connect"}

\* C27: both traversals terminate.  Each id is enqueued at most once: the
\* ids popped so far and the ids in the queue are together the ids
\* visited, each once, and all but the start items of the filter are
\* items; every turn pops one.  So the loop makes at most as many turns as
\* there are ids visited, whatever max_depth is, and a loop in progress can
\* always take its next turn or return.
C27_EnqueuedOnce ==
    /\ Traversing =>
          /\ traversal.turns + Len(traversal.queue) = Cardinality(traversal.visited)
          /\ \A i, j \in DOMAIN traversal.queue :
                i # j => traversal.queue[i][1] # traversal.queue[j][1]
          /\ \A i \in DOMAIN traversal.queue : traversal.queue[i][1] \in traversal.visited
          /\ traversal.visited \subseteq DOMAIN all_items
    /\ Traversing => ENABLED TraverseTurn
    /\ pc = "returned" => traversal.turns <= Cardinality(DOMAIN all_items)

\* A traversal with the large depth limit has returned after one turn per
\* item on a graph where item 1 refers to itself, and items 1 and 2 to
\* each other.
C27_Witness ==
    /\ pc = "returned"
    /\ traversal.max_depth \in {LargeDepth, FilterMaxDepth}
    /\ traversal.turns = Cardinality(DOMAIN all_items)
    /\ Cardinality(DOMAIN all_items) >= 2
    /\ <<"1">> \in DictGet(relationships, <<"1">>)
    /\ <<"2">> \in DictGet(relationships, <<"1">>)
    /\ <<"1">> \in DictGet(relationships, <<"2">>)

\* Under the fairness of the loop, a traversal in progress returns.
TraversalReturns == Traversing ~> (pc = "returned")


RECURSIVE SumOver(_, _)
SumOver(f, S) ==
    IF S = {} THEN 0 ELSE LET x == CHOOSE y \in S : TRUE IN f[x] + SumOver(f, S \ {x})

\* How many edge records have the id as this endpoint.
EndpointCount(edges, id, end) ==
    Cardinality({k \in DOMAIN edges : (IF end = "from" THEN edges[k].from ELSE edges[k].to) = id})

\* C28: the degree of a node is the number of edge records it is an
\* endpoint of, an edge from a node to itself counted twice; the degrees
\* add up to twice the number of edges; the update never misses a key; and
\* the radius of a node is 5 plus twice its degree.
C28_DegreeIsEndpointCount ==
    pc = "built" =>
        LET net == network_degrees(df, ncols)
        IN  /\ ~net.raised
            /\ DOMAIN net.degrees = valid_item_ids(df)
            /\ \A id \in DOMAIN net.degrees :
                  /\ net.degrees[id] = EndpointCount(net.edges, id, "from")
                                          + EndpointCount(net.edges, id, "to")
                  /\ radius(net, id) = 5 + 2 * (EndpointCount(net.edges, id, "from")
                                                   + EndpointCount(net.edges, id, "to"))
            /\ SumOver(net.degrees, DOMAIN net.degrees) = 2 * Len(net.edges)
            /\ {net.edges[k] : k \in DOMAIN net.edges} = create_network_data(df, ncols)

\* Three edge records, two of them the same edge from item 1 to itself and
\* one from item 2 to item 1.
C28_Witness ==
    /\ pc = "built"
    /\ LET net == network_degrees(df, ncols)
       IN  /\ Len(net.edges) = 3
           /\ \E i, j, k \in DOMAIN net.edges :
                 /\ i # j /\ net.edges[i] = net.edges[j]
                 /\ net.edges[i].from = <<"1">> /\ net.edges[i].to = <<"1">>
                 /\ net.edges[k].from = <<"2">> /\ net.edges[k].to = <<"1">>
           /\ net.degrees[<<"1">>] = 5 /\ net.degrees[<<"2">>] = 1


\* The position of a returned id in the node list.
NodeIndex(id) == (CHOOSE i \in DOMAIN query.nodes : query.nodes[i].id = id)

\* C29: for a known root the result is a BFS tree: the root comes first
\* with depth 0; every depth lies in 0..max_depth; depths never decrease
\* along the node list; no id is returned twice; there is one edge less
\* than nodes; both endpoints of every edge are returned nodes, and their
\* depths differ by exactly 1.
C29_BfsTree ==
    (query.called /\ Known(query.item_id)) =>
        /\ query.nodes # <<>>
        /\ query.nodes[1].id = query.item_id /\ query.nodes[1].depth = 0
        /\ \A i \in DOMAIN query.nodes :
              /\ query.nodes[i].depth \in 0..query.max_depth
              /\ \A j \in DOMAIN query.nodes :
                    /\ i < j => query.nodes[i].depth <= query.nodes[j].depth
                    /\ i # j => query.nodes[i].id # query.nodes[j].id
        /\ Len(query.edges) + 1 = Len(query.nodes)
        /\ \A k \in DOMAIN query.edges :
              /\ {query.edges[k][1], query.edges[k][2]} \subseteq NodeIds(query.nodes)
              /\ LET a == query.nodes[NodeIndex(query.edges[k][1])].depth
                     b == query.nodes[NodeIndex(query.edges[k][2])].depth
                 IN  a - b \in {1, -1}

\* A call with max_depth 2 that returned nodes at the depths 0, 1 and 2 on
\* a graph where the node at depth 2 is also tied to itself, an edge the
\* tree leaves out.
C29_Witness ==
    /\ query.called /\ Known(query.item_id) /\ query.max_depth = 2
    /\ Len(query.nodes) = 3
    /\ query.nodes[2].depth = 1 /\ query.nodes[3].depth = 2
    /\ query.nodes[3].id \in DictGet(relationships, query.nodes[3].id)


\* C30: after the filter has run with a flagged item it has returned a
\* graph closed over its Item table: every key and every member of both
\* mappings is an item, and every flagged item is an item.  (The filter
\* assigns to none of its arguments, so its inputs stay as they were.)
C30_FilteredGraphClosed ==
    (pc \in {"filtered", "raised"} /\ filtered.flagged_items # {}) =>
        /\ pc = "filtered"
        /\ Ids(Graph) \subseteq DOMAIN all_items
        /\ filtered.flagged_items \subseteq DOMAIN all_items

====
